---- MODULE Spec2Model ----
(***************************************************************************)
(* Argument-graph extraction of src/graph_approach: the ArgumentGraph      *)
(* container (components.py), the validation and merge helpers (utils.py)  *)
(* and the chunked driver with its two extraction steps                    *)
(* (argument_extractor.py).                                                *)
(*                                                                         *)
(* Strings that the code inspects character-wise (component text, page     *)
(* text) are sequences of one-letter strings; ids are the token sequence   *)
(* that generate_component_id formats.                                     *)
(***************************************************************************)
EXTENDS Integers, Sequences, FiniteSets, TLC

VARIABLES
    nodes,               \* ArgumentGraph.nodes
    edges,               \* ArgumentGraph.edges
    api_last,            \* the last add_node/add_edge call made directly on the graph
    pages,               \* argument of extract_argument_graph
    config,              \* the Config class attributes read by the driver
    pc,                  \* position of the driver
    i,                   \* loop variable of extract_argument_graph (0-based offset)
    chunk_pages,         \* pages[i:i+chunk_size]
    existing_nodes,      \* graph.nodes as passed to _extract_from_chunk
    existing_edges,      \* graph.edges as passed to _extract_from_chunk
    chunk_components,    \* value returned by _extract_components_from_chunk
    chunk_relationships, \* value returned by _extract_relationships_from_chunk
    j,                   \* position of the running add_node / add_edge loop (1-based)
    result,              \* what extract_argument_graph returned or raised
    chunks,              \* history: the chunks formed so far, in order
    calls,               \* history: the reasoning-service calls issued so far
    comp_outcome,        \* history: how the component call of the current chunk ended
    rel_outcome,         \* history: how the relation step of the current chunk ended
    yielded,             \* history: every component returned by a component step
    returned,            \* history: every relation returned by a relation step
    served,              \* number of array elements the service has returned so far
    merge_calls,         \* history: number of add_node and of add_edge calls of the driver
    response,            \* step specification: the service response to the component call
    rel_response,        \* the service response to the relation call of the current chunk
    candidate,           \* validation specification: the dict handed to a validate_*_data
    errors,              \* the list returned by the last validation call
    context_summary      \* the digest returned by the last _prepare_context_summary call

vars == <<nodes, edges, api_last, pages, config, pc, i, chunk_pages, existing_nodes,
          existing_edges, chunk_components, chunk_relationships, j, result, chunks,
          calls, comp_outcome, rel_outcome, yielded, returned, served, merge_calls,
          response, rel_response, candidate, errors, context_summary>>

graph_vars == <<nodes, edges>>
driver_vars == <<pages, config, pc, i, chunk_pages, existing_nodes, existing_edges,
                 chunk_components, chunk_relationships, j, result, chunks, calls,
                 comp_outcome, rel_outcome, yielded, returned, served, merge_calls>>
step_vars == <<response, rel_response>>
audit_vars == <<candidate, errors>>

(***************************************************************************)
(* Bounds of the model.                                                    *)
(***************************************************************************)
MaxPages == 3        \* length of the page list
MaxChunk == 2        \* largest configured PAGES_PER_CHUNK
MaxServed == 3       \* array elements the reasoning service returns in one run
MaxBatch == 2        \* length of a service batch in SpecStep

Min(a, b) == IF a <= b THEN a ELSE b
Max_takes_source(a, b) == a
Max(a, b) == IF a >= b THEN a ELSE b

(***************************************************************************)
(* Text.  A Python str is a sequence of characters; `a in b` on two strs   *)
(* is substring containment.                                               *)
(***************************************************************************)
IsSubstring(s, t) ==
    \E k \in 0..(Len(t) - Len(s)) : SubSeq(t, k + 1, k + Len(s)) = s

TextXY == <<"x", "y">>
TextY == <<"y">>
TextZ == <<"z">>
TextEmpty == <<>>

\* the contents of JSON string elements a response can hold
TextHello == <<"h", "e", "l", "l", "o">>
TextSomeText == <<"s", "o", "m", "e", " ", "t", "e", "x", "t">>
TextAType == <<"a", " ", "t", "y", "p", "e">>
TextPage3 == <<"p", "a", "g", "e", " ", "3">>
TextTheSource == <<"t", "h", "e", " ", "s", "o", "u", "r", "c", "e">>
TextTarget == <<"t", "a", "r", "g", "e", "t">>
TextARelation == <<"a", " ", "r", "e", "l", "a", "t", "i", "o", "n">>

(***************************************************************************)
(* utils.generate_component_id                                             *)
(***************************************************************************)
TypeInitial(component_type) ==
    CASE component_type = "Claim" -> "C"
      [] component_type = "Conclusion" -> "C"
      [] component_type = "Counterclaim" -> "C"
      [] component_type = "Evidence" -> "E"
      [] component_type = "Background" -> "B"
      [] component_type = "Method" -> "M"
      [] component_type = "Result" -> "R"
      [] component_type = "Limitation" -> "L"

generate_component_id_without_index(component_type, page_number, index) ==
    <<"P", page_number, "-", TypeInitial(component_type), 1>>

generate_component_id(component_type, page_number, index) ==
    <<"P", page_number, "-", TypeInitial(component_type), index + 1>>

(***************************************************************************)
(* components.ArgumentComponent / ArgumentRelation                         *)
(***************************************************************************)
ArgumentComponent(id, type, text, page) ==
    [id |-> id, type |-> type, text |-> text, page |-> page]

ArgumentRelation(source, target, relation, page) ==
    [source |-> source, target |-> target, relation |-> relation, page |-> page]

(***************************************************************************)
(* components.ArgumentGraph.add_node / add_edge, as functions of the graph *)
(***************************************************************************)
NodeExists(ns, id) == \E k \in 1..Len(ns) : ns[k].id = id

add_node_replacing(ns, component) ==
    IF NodeExists(ns, component.id)
    THEN [k \in 1..Len(ns) |-> IF ns[k].id = component.id THEN component ELSE ns[k]]
    ELSE Append(ns, component)

add_node_no_guard(ns, component) == Append(ns, component)

add_node(ns, component) ==
    IF ~NodeExists(ns, component.id) THEN Append(ns, component) ELSE ns

add_edge_source_only(ns, es, relation) ==
    IF NodeExists(ns, relation.source)
    THEN IF ~\E k \in 1..Len(es) : /\ es[k].source = relation.source
                                   /\ es[k].target = relation.target
                                   /\ es[k].relation = relation.relation
         THEN Append(es, relation)
         ELSE es
    ELSE es

add_edge_no_dedup(ns, es, relation) ==
    IF NodeExists(ns, relation.source) /\ NodeExists(ns, relation.target)
    THEN Append(es, relation)
    ELSE es

add_edge_pair_dedup(ns, es, relation) ==
    IF NodeExists(ns, relation.source) /\ NodeExists(ns, relation.target)
    THEN IF ~\E k \in 1..Len(es) : /\ es[k].source = relation.source
                                   /\ es[k].target = relation.target
         THEN Append(es, relation)
         ELSE es
    ELSE es

add_edge(ns, es, relation) ==
    LET source_exists == NodeExists(ns, relation.source)
        target_exists == NodeExists(ns, relation.target)
    IN  IF source_exists /\ target_exists
        THEN IF ~\E k \in 1..Len(es) : /\ es[k].source = relation.source
                                       /\ es[k].target = relation.target
                                       /\ es[k].relation = relation.relation
             THEN Append(es, relation)
             ELSE es
        ELSE es

(***************************************************************************)
(* What the reasoning service sends back.  A response is the outcome of    *)
(* client.chat.completions.create plus the message content:                *)
(*   raise      the call raises                                            *)
(*   none       the message content is None                                *)
(*   garbage    text with no [...] region that is not JSON                 *)
(*   bad_array  text whose [...] region is not JSON                        *)
(*   scalar     text that is a JSON number and has no [...] region         *)
(*   array      text holding a JSON array, whose elements are `items`      *)
(* An array element is a JSON object (kind "dict"), a JSON number or a     *)
(* JSON string; the has_* fields of an object say which keys it holds, and *)
(* a JSON string element keeps its characters.                             *)
(***************************************************************************)

(***************************************************************************)
(* components.ArgumentGraph.validate: the messages, in the order the code  *)
(* appends them.  A message is kept as its wording and the id it quotes.   *)
(***************************************************************************)
GraphError(message, role, id) == [message |-> message, role |-> role, id |-> id]

RECURSIVE orphaned_edge_errors(_, _)
orphaned_edge_errors(ns, es) ==
    IF es = <<>> THEN <<>>
    ELSE (IF ~NodeExists(ns, Head(es).source)
          THEN <<GraphError("does not exist", "source", Head(es).source)>> ELSE <<>>)
         \o (IF ~NodeExists(ns, Head(es).target)
             THEN <<GraphError("does not exist", "target", Head(es).target)>> ELSE <<>>)
         \o orphaned_edge_errors(ns, Tail(es))

RECURSIVE duplicate_id_errors(_, _)
duplicate_id_errors(ns, seen_ids) ==
    IF ns = <<>> THEN <<>>
    ELSE (IF Head(ns).id \in seen_ids
          THEN <<GraphError("Duplicate node ID", "node", Head(ns).id)>> ELSE <<>>)
         \o duplicate_id_errors(Tail(ns), seen_ids \cup {Head(ns).id})

RECURSIVE self_loop_errors(_)
self_loop_errors(es) ==
    IF es = <<>> THEN <<>>
    ELSE (IF Head(es).source = Head(es).target
          THEN <<GraphError("Self-loop detected", "edge", Head(es).source)>> ELSE <<>>)
         \o self_loop_errors(Tail(es))

validate_sources_only(ns, es) ==
    LET RECURSIVE sources(_)
        sources(rest) ==
            IF rest = <<>> THEN <<>>
            ELSE (IF ~NodeExists(ns, Head(rest).source)
                  THEN <<GraphError("does not exist", "source", Head(rest).source)>>
                  ELSE <<>>)
                 \o sources(Tail(rest))
    IN  sources(es) \o duplicate_id_errors(ns, {}) \o self_loop_errors(es)

validate(ns, es) ==
    orphaned_edge_errors(ns, es) \o duplicate_id_errors(ns, {}) \o self_loop_errors(es)

Response(kind, items) == [kind |-> kind, items |-> items]

FailureKinds == {"raise", "none", "garbage", "bad_array", "scalar"}

ComponentData(has_text, text_is_str, text, has_type, type, has_page, page) ==
    [kind |-> "dict", has_text |-> has_text, text_is_str |-> text_is_str, text |-> text,
     has_type |-> has_type, type |-> type, has_page |-> has_page, page |-> page]

ComponentNonDict(kind) ==
    [kind |-> kind, has_text |-> FALSE, text_is_str |-> FALSE, text |-> <<>>,
     has_type |-> FALSE, type |-> "", has_page |-> FALSE, page |-> 0]

\* a JSON string element: `text` holds the characters of the string itself
ComponentString(chars) ==
    [kind |-> "string", has_text |-> FALSE, text_is_str |-> FALSE, text |-> chars,
     has_type |-> FALSE, type |-> "", has_page |-> FALSE, page |-> 0]

RelationData(has_source, source, has_target, target, has_relation, relation) ==
    [kind |-> "dict", has_source |-> has_source, source |-> source,
     has_target |-> has_target, target |-> target,
     has_relation |-> has_relation, relation |-> relation, chars |-> <<>>]

NoId == <<"P", 0, "-", "", 0>>

RelationNonDict(kind) ==
    [kind |-> kind, has_source |-> FALSE, source |-> NoId, has_target |-> FALSE,
     target |-> NoId, has_relation |-> FALSE, relation |-> "", chars |-> <<>>]

\* a JSON string element: `chars` holds the characters of the string itself
RelationString(chars) ==
    [kind |-> "string", has_source |-> FALSE, source |-> NoId, has_target |-> FALSE,
     target |-> NoId, has_relation |-> FALSE, relation |-> "", chars |-> chars]

(***************************************************************************)
(* utils.extract_json_from_response: exc is an exception the function lets *)
(* through (re.search on None raises TypeError, which it does not catch).  *)
(***************************************************************************)
extract_json_from_response(r) ==
    CASE r.kind = "none" -> [exc |-> TRUE, value |-> "None", items |-> <<>>]
      [] r.kind = "garbage" -> [exc |-> FALSE, value |-> "None", items |-> <<>>]
      [] r.kind = "bad_array" -> [exc |-> FALSE, value |-> "None", items |-> <<>>]
      [] r.kind = "scalar" -> [exc |-> FALSE, value |-> "scalar", items |-> <<>>]
      [] r.kind = "array" -> [exc |-> FALSE, value |-> "list", items |-> r.items]

(***************************************************************************)
(* utils.validate_component_data / validate_relation_data.  `field in d`   *)
(* is key membership on a dict, raises TypeError on a number, and is a     *)
(* substring test on a str; d[field] on a str raises TypeError.  A result  *)
(* with raised = TRUE carries no error list.                               *)
(***************************************************************************)
valid_types == {"Claim", "Evidence", "Conclusion", "Counterclaim", "Background",
                "Method", "Result", "Limitation"}

valid_relations == {"supported_by", "contradicted_by", "leads_to", "elaborates",
                    "addresses", "compares_to", "builds_on", "motivates", "demonstrates"}

When(cond, error) == IF cond THEN <<error>> ELSE <<>>

\* the required and optional field names, as Python strs
FieldText == <<"t", "e", "x", "t">>
FieldType == <<"t", "y", "p", "e">>
FieldPage == <<"p", "a", "g", "e">>
FieldSource == <<"s", "o", "u", "r", "c", "e">>
FieldTarget == <<"t", "a", "r", "g", "e", "t">>
FieldRelation == <<"r", "e", "l", "a", "t", "i", "o", "n">>

\* `field in component_data`, where has_field is the answer for a dict
FieldIn(field, kind, has_field, chars) ==
    IF kind = "string" THEN IsSubstring(field, chars) ELSE kind = "dict" /\ has_field

validate_component_data_any_case(d) ==
    LET in_text == FieldIn(FieldText, d.kind, d.has_text, d.text)
        in_type == FieldIn(FieldType, d.kind, d.has_type, d.text)
        in_page == FieldIn(FieldPage, d.kind, d.has_page, d.text)
        raised == \/ d.kind = "number"
                  \/ d.kind = "string" /\ (in_text \/ in_type \/ in_page)
    IN  [raised |-> raised,
         errors |->
            IF raised THEN <<>>
            ELSE When(~in_text, "Missing required field: text")
                 \o When(~in_type, "Missing required field: type")
                 \o When(in_text /\ ~d.text_is_str, "'text' must be a string")
                 \o When(in_type /\ d.type \notin valid_types \cup {"claim"}, "Invalid type")
                 \o When(in_page /\ d.page <= 0, "'page' must be a positive integer")]

validate_component_data_no_page_check(d) ==
    LET in_text == FieldIn(FieldText, d.kind, d.has_text, d.text)
        in_type == FieldIn(FieldType, d.kind, d.has_type, d.text)
        in_page == FieldIn(FieldPage, d.kind, d.has_page, d.text)
        raised == \/ d.kind = "number"
                  \/ d.kind = "string" /\ (in_text \/ in_type \/ in_page)
    IN  [raised |-> raised,
         errors |->
            IF raised THEN <<>>
            ELSE When(~in_text, "Missing required field: text")
                 \o When(~in_type, "Missing required field: type")
                 \o When(in_text /\ ~d.text_is_str, "'text' must be a string")
                 \o When(in_type /\ d.type \notin valid_types, "Invalid type")]

validate_component_data(d) ==
    LET in_text == FieldIn(FieldText, d.kind, d.has_text, d.text)
        in_type == FieldIn(FieldType, d.kind, d.has_type, d.text)
        in_page == FieldIn(FieldPage, d.kind, d.has_page, d.text)
        raised == \/ d.kind = "number"
                  \/ d.kind = "string" /\ (in_text \/ in_type \/ in_page)
    IN  [raised |-> raised,
         errors |->
            IF raised THEN <<>>
            ELSE When(~in_text, "Missing required field: text")
                 \o When(~in_type, "Missing required field: type")
                 \o When(in_text /\ ~d.text_is_str, "'text' must be a string")
                 \o When(in_type /\ d.type \notin valid_types, "Invalid type")
                 \o When(in_page /\ d.page <= 0, "'page' must be a positive integer")]

validate_relation_data_no_enum(d) ==
    LET in_source == FieldIn(FieldSource, d.kind, d.has_source, d.chars)
        in_target == FieldIn(FieldTarget, d.kind, d.has_target, d.chars)
        in_relation == FieldIn(FieldRelation, d.kind, d.has_relation, d.chars)
        raised == d.kind = "number" \/ (d.kind = "string" /\ in_relation)
    IN  [raised |-> raised,
         errors |->
            IF raised THEN <<>>
            ELSE When(~in_source, "Missing required field: source")
                 \o When(~in_target, "Missing required field: target")
                 \o When(~in_relation, "Missing required field: relation")]

validate_relation_data(d) ==
    LET in_source == FieldIn(FieldSource, d.kind, d.has_source, d.chars)
        in_target == FieldIn(FieldTarget, d.kind, d.has_target, d.chars)
        in_relation == FieldIn(FieldRelation, d.kind, d.has_relation, d.chars)
        raised == d.kind = "number" \/ (d.kind = "string" /\ in_relation)
    IN  [raised |-> raised,
         errors |->
            IF raised THEN <<>>
            ELSE When(~in_source, "Missing required field: source")
                 \o When(~in_target, "Missing required field: target")
                 \o When(~in_relation, "Missing required field: relation")
                 \o When(in_relation /\ d.relation \notin valid_relations,
                         "Invalid relation")]

(***************************************************************************)
(* utils.merge_overlapping_components                                      *)
(***************************************************************************)
InsertByLength(s, c) ==
    LET n == Cardinality({m \in 1..Len(s) : Len(s[m].text) >= Len(c.text)})
    IN  SubSeq(s, 1, n) \o <<c>> \o SubSeq(s, n + 1, Len(s))

\* sorted(components, key=lambda x: len(x['text']), reverse=True): stable
sorted_components(components) ==
    LET F[k \in 0..Len(components)] ==
            IF k = 0 THEN <<>> ELSE InsertByLength(F[k - 1], components[k])
    IN  F[Len(components)]

Overlaps(text, merged) ==
    \E m \in 1..Len(merged) :
        IsSubstring(text, merged[m].text) \/ IsSubstring(merged[m].text, text)

merge_overlapping_components_unsorted(components) ==
    LET F[k \in 0..Len(components)] ==
            IF k = 0 THEN <<>>
            ELSE IF Overlaps(components[k].text, F[k - 1]) THEN F[k - 1]
                 ELSE Append(F[k - 1], components[k])
    IN  F[Len(components)]

merge_overlapping_components(components) ==
    LET sorted == sorted_components(components)
        F[k \in 0..Len(sorted)] ==
            IF k = 0 THEN <<>>
            ELSE IF Overlaps(sorted[k].text, F[k - 1]) THEN F[k - 1]
                 ELSE Append(F[k - 1], sorted[k])
    IN  F[Len(sorted)]

(***************************************************************************)
(* argument_extractor._infer_page_number / _find_component_page            *)
(***************************************************************************)
_infer_page_number_first_page(text, cp) == cp[1].page_number

_infer_page_number(text, cp) ==
    IF \E k \in 1..Len(cp) : IsSubstring(text, cp[k].text)
    THEN cp[CHOOSE k \in 1..Len(cp) :
                /\ IsSubstring(text, cp[k].text)
                /\ \A m \in 1..(k - 1) : ~IsSubstring(text, cp[m].text)].page_number
    ELSE cp[1].page_number

_find_component_page(component_id, all_components) ==
    IF \E k \in 1..Len(all_components) : all_components[k].id = component_id
    THEN all_components[CHOOSE k \in 1..Len(all_components) :
                /\ all_components[k].id = component_id
                /\ \A m \in 1..(k - 1) : all_components[m].id # component_id].page
    ELSE 1

(***************************************************************************)
(* argument_extractor._extract_components_from_chunk, from the response    *)
(* on: everything inside its try block.  Any exception ends in the         *)
(* `except Exception` branch, which returns [].                            *)
(***************************************************************************)
valid_components(items, cp) ==
    LET F[k \in 0..Len(items)] ==
            IF k = 0 THEN <<>>
            ELSE LET comp_data == items[k]
                     page_number == IF comp_data.has_page THEN comp_data.page
                                    ELSE _infer_page_number(comp_data.text, cp)
                 IN  IF validate_component_data(comp_data).errors # <<>>
                     THEN F[k - 1]
                     ELSE Append(F[k - 1],
                            ArgumentComponent(
                              generate_component_id(comp_data.type, page_number, k - 1),
                              comp_data.type, comp_data.text, page_number))
    IN  F[Len(items)]

_extract_components_from_chunk(r, cp) ==
    IF r.kind = "raise" THEN <<>>
    ELSE LET components_data == extract_json_from_response(r)
         IN  IF components_data.exc THEN <<>>
             ELSE IF components_data.value = "None" THEN <<>>
             ELSE IF components_data.value = "scalar" THEN <<>>
             ELSE IF components_data.items = <<>> THEN <<>>
             ELSE IF \E k \in 1..Len(components_data.items) :
                        validate_component_data(components_data.items[k]).raised
                  THEN <<>>
             ELSE merge_overlapping_components(
                      valid_components(components_data.items, cp))

(***************************************************************************)
(* argument_extractor._extract_relationships_from_chunk, after the early   *)
(* return for a chunk without components: the call and its try block.      *)
(***************************************************************************)
valid_relations_of(items, all_components) ==
    LET F[k \in 0..Len(items)] ==
            IF k = 0 THEN <<>>
            ELSE LET rel_data == items[k]
                     source_page == _find_component_page(rel_data.source, all_components)
                     target_page == _find_component_page(rel_data.target, all_components)
                     relation_page == Max(source_page, target_page)
                 IN  IF validate_relation_data(rel_data).errors # <<>>
                     THEN F[k - 1]
                     ELSE Append(F[k - 1],
                            ArgumentRelation(rel_data.source, rel_data.target,
                                             rel_data.relation, relation_page))
    IN  F[Len(items)]

issues_relation_call_always(comps) == TRUE

issues_relation_call_unless_two(comps) == Len(comps) < 2

\* lines 329-330: the step returns [] without a call for a chunk without components
issues_relation_call(comps) == ~(Len(comps) < 1)

_extract_relationships_from_chunk(r, comps, existing) ==
    IF ~issues_relation_call(comps) THEN <<>>
    ELSE IF r.kind = "raise" THEN <<>>
    ELSE LET all_components == existing \o comps
             relations_data == extract_json_from_response(r)
         IN  IF relations_data.exc THEN <<>>
             ELSE IF relations_data.value = "None" THEN <<>>
             ELSE IF relations_data.value = "scalar" THEN <<>>
             ELSE IF relations_data.items = <<>> THEN <<>>
             ELSE IF \E k \in 1..Len(relations_data.items) :
                        validate_relation_data(relations_data.items[k]).raised
                  THEN <<>>
             ELSE valid_relations_of(relations_data.items, all_components)

(***************************************************************************)
(* SpecGraph: the graph container under arbitrary add_node / add_edge      *)
(* calls.  Components and relations are drawn from two ids, two texts, two *)
(* relation types and two pages, so that calls repeat ids and triples,     *)
(* name nodes not yet added, and connect a node to itself.                 *)
(***************************************************************************)
IdA == generate_component_id("Claim", 1, 0)
IdB == generate_component_id("Evidence", 2, 0)

GraphComponents ==
    {ArgumentComponent(IdA, "Claim", t, 1) : t \in {TextXY, TextZ}}
    \cup {ArgumentComponent(IdB, "Evidence", t, 2) : t \in {TextXY, TextZ}}

GraphRelations ==
    {ArgumentRelation(st[1], st[2], r, p) :
        st \in {<<IdA, IdB>>, <<IdA, IdA>>},
        r \in {"supported_by", "leads_to"},
        p \in {1, 2}}

NoComponent == ArgumentComponent(NoId, "", <<>>, 0)
NoRelation == ArgumentRelation(NoId, NoId, "", 0)
NoResponse == Response("unset", <<>>)
NoCandidate == [of |-> "none", data |-> ComponentNonDict("none")]
NoErrors == [done |-> FALSE, raised |-> FALSE, list |-> <<>>]

NoContext == [marker |-> FALSE, components |-> <<>>, has_relations |-> FALSE, relations |-> <<>>]

AuditIdle ==
    /\ candidate = NoCandidate
    /\ errors = NoErrors
    /\ context_summary = NoContext

\* the Config attributes where extract_argument_graph is not called and the
\* configuration is not read
NoConfig ==
    [OPENAI_API_KEY |-> FALSE, OPENAI_TEMPERATURE |-> 1, OPENAI_MAX_TOKENS |-> 0,
     PAGES_PER_CHUNK |-> 0, MAX_CHUNK_TEXT_LENGTH |-> 1, MAX_TEXT_LENGTH |-> 1,
     MIN_COMPONENT_LENGTH |-> 1]

DriverIdle ==
    /\ pages = <<>>
    /\ config = NoConfig
    /\ pc = "idle"
    /\ i = 0
    /\ chunk_pages = <<>>
    /\ existing_nodes = <<>>
    /\ existing_edges = <<>>
    /\ chunk_components = <<>>
    /\ chunk_relationships = <<>>
    /\ j = 0
    /\ result = "none"
    /\ chunks = <<>>
    /\ calls = <<>>
    /\ comp_outcome = "pending"
    /\ rel_outcome = "pending"
    /\ yielded = <<>>
    /\ returned = <<>>
    /\ served = 0
    /\ merge_calls = [nodes |-> 0, edges |-> 0]

InitGraph ==
    /\ nodes = <<>>
    /\ edges = <<>>
    /\ api_last = [op |-> "none", component |-> NoComponent, relation |-> NoRelation]
    /\ DriverIdle
    /\ AuditIdle
    /\ response = NoResponse
    /\ rel_response = NoResponse

GraphAddNode(component) ==
    /\ pc = "idle"
    /\ nodes' = add_node(nodes, component)
    /\ api_last' = [op |-> "add_node", component |-> component, relation |-> NoRelation]
    /\ errors' = NoErrors
    /\ UNCHANGED <<edges, driver_vars, step_vars, candidate, context_summary>>

GraphAddEdge(relation) ==
    /\ pc = "idle"
    /\ edges' = add_edge(nodes, edges, relation)
    /\ api_last' = [op |-> "add_edge", component |-> NoComponent, relation |-> relation]
    /\ errors' = NoErrors
    /\ UNCHANGED <<nodes, driver_vars, step_vars, candidate, context_summary>>

\* components.py:205-234
GraphValidate ==
    /\ pc = "idle"
    /\ ~errors.done
    /\ errors' = [done |-> TRUE, raised |-> FALSE, list |-> validate(nodes, edges)]
    /\ UNCHANGED <<graph_vars, api_last, driver_vars, step_vars, candidate, context_summary>>

NextGraph ==
    \/ \E component \in GraphComponents : GraphAddNode(component)
    \/ \E relation \in GraphRelations : GraphAddEdge(relation)
    \/ GraphValidate

SpecGraph == InitGraph /\ [][NextGraph]_vars

(***************************************************************************)
(* config.Config.validate.  OPENAI_API_KEY is kept as its truth value     *)
(* (None and '' are false) and OPENAI_TEMPERATURE, a float, in tenths:     *)
(* 1 is the default 0.1 and MaxTemperature is 2.                           *)
(***************************************************************************)
MaxPagesPerChunk == 30
MaxTemperature == 20

Config_validate_key_only(c) ==
    When(~c.OPENAI_API_KEY, "OPENAI_API_KEY environment variable is not set")

Config_validate(c) ==
    When(~c.OPENAI_API_KEY, "OPENAI_API_KEY environment variable is not set")
    \o When(c.OPENAI_TEMPERATURE < 0 \/ c.OPENAI_TEMPERATURE > MaxTemperature,
            "OPENAI_TEMPERATURE must be between 0 and 2")
    \o When(c.OPENAI_MAX_TOKENS <= 0, "OPENAI_MAX_TOKENS must be positive")
    \o When(c.PAGES_PER_CHUNK <= 0, "PAGES_PER_CHUNK must be positive")
    \o When(c.PAGES_PER_CHUNK > MaxPagesPerChunk,
            "PAGES_PER_CHUNK should not exceed 30 for optimal performance")
    \o When(c.MAX_CHUNK_TEXT_LENGTH <= 0, "MAX_CHUNK_TEXT_LENGTH must be positive")
    \o When(c.MAX_TEXT_LENGTH <= 0, "MAX_TEXT_LENGTH must be positive")
    \o When(c.MIN_COMPONENT_LENGTH <= 0, "MIN_COMPONENT_LENGTH must be positive")

\* the settings a caller can leave in the Config class before a run
Temperatures == {-1, 1, 30}

Configurations ==
    [OPENAI_API_KEY : BOOLEAN,
     OPENAI_TEMPERATURE : Temperatures,
     OPENAI_MAX_TOKENS : {0, 1},
     PAGES_PER_CHUNK : 0..MaxChunk,
     MAX_CHUNK_TEXT_LENGTH : {0, 1},
     MAX_TEXT_LENGTH : {0, 1},
     MIN_COMPONENT_LENGTH : {0, 1}]

(***************************************************************************)
(* components.ArgumentGraph.to_dict                                        *)
(***************************************************************************)
component_to_dict(c) == [id |-> c.id, type |-> c.type, text |-> c.text, page |-> c.page]

relation_to_dict(r) ==
    [source |-> r.source, target |-> r.target, relation |-> r.relation, page |-> r.page]

to_dict(ns, es) ==
    [nodes |-> [k \in 1..Len(ns) |-> component_to_dict(ns[k])],
     edges |-> [k \in 1..Len(es) |-> relation_to_dict(es[k])]]

(***************************************************************************)
(* Spec: extract_argument_graph.  The ingestion collaborator numbers the   *)
(* pages 1..N; odd pages read "xy" and even pages "z".  The reasoning      *)
(* service answers each call with a failure or with an array of candidates *)
(* drawn from the sets below.                                              *)
(***************************************************************************)
PageText(p) == IF p % 2 = 1 THEN TextXY ELSE TextZ

PageList(n) == [p \in 1..n |-> [page_number |-> p, text |-> PageText(p)]]

IdB2 == generate_component_id("Evidence", 2, 1)

CandClaim == ComponentData(TRUE, TRUE, TextXY, TRUE, "Claim", FALSE, 0)
CandEvidence == ComponentData(TRUE, TRUE, TextZ, TRUE, "Evidence", FALSE, 0)
CandPaged == ComponentData(TRUE, TRUE, TextZ, TRUE, "Claim", TRUE, 1)
CandNoText == ComponentData(FALSE, FALSE, <<>>, TRUE, "Claim", FALSE, 0)
CandNumber == ComponentNonDict("number")
CandEmptyText == ComponentData(TRUE, TRUE, TextEmpty, TRUE, "Claim", FALSE, 0)

DriverComponentCandidates ==
    {CandClaim, CandEvidence, CandPaged, CandNoText, CandNumber, CandEmptyText}

RelSupports == RelationData(TRUE, IdA, TRUE, IdB, TRUE, "supported_by")
RelSupports2 == RelationData(TRUE, IdA, TRUE, IdB2, TRUE, "supported_by")
RelSelf == RelationData(TRUE, IdA, TRUE, IdA, TRUE, "supported_by")
RelBadType == RelationData(TRUE, IdB, TRUE, IdA, TRUE, "supports")
RelNumber == RelationNonDict("number")

DriverRelationCandidates == {RelSupports, RelSupports2, RelSelf, RelBadType, RelNumber}

Batches(candidates, n) == UNION {[1..m -> candidates] : m \in 0..n}

Responses(candidates, n) ==
    {Response(k, <<>>) : k \in FailureKinds}
    \cup {Response("array", b) : b \in Batches(candidates, n)}

InitDriver ==
    /\ nodes = <<>>
    /\ edges = <<>>
    /\ api_last = [op |-> "none", component |-> NoComponent, relation |-> NoRelation]
    /\ pages \in {PageList(n) : n \in 0..MaxPages}
    /\ config \in Configurations
    /\ pc = "start"
    /\ i = 0
    /\ chunk_pages = <<>>
    /\ existing_nodes = <<>>
    /\ existing_edges = <<>>
    /\ chunk_components = <<>>
    /\ chunk_relationships = <<>>
    /\ j = 0
    /\ result = "none"
    /\ chunks = <<>>
    /\ calls = <<>>
    /\ comp_outcome = "pending"
    /\ rel_outcome = "pending"
    /\ yielded = <<>>
    /\ returned = <<>>
    /\ served = 0
    /\ merge_calls = [nodes |-> 0, edges |-> 0]
    /\ AuditIdle
    /\ response = NoResponse
    /\ rel_response = NoResponse

\* config.py:93-102, called before the run: api_key is the truth value of the
\* str the caller passes
SetOpenaiApiKey(api_key) ==
    /\ pc = "start"
    /\ config' = [config EXCEPT !.OPENAI_API_KEY = api_key]
    /\ UNCHANGED <<graph_vars, api_last, merge_calls, pages, pc, result, i, chunk_pages,
                   existing_nodes, existing_edges, chunk_components, chunk_relationships, j, chunks,
                   calls, comp_outcome, rel_outcome, yielded, returned, served,
                   step_vars, audit_vars, context_summary>>

\* lines 36-47: the configuration check, then the empty graph
Start ==
    /\ pc = "start"
    /\ IF Config_validate(config) # <<>>
       THEN pc' = "raised" /\ result' = "ValueError"
       ELSE pc' = "loop" /\ result' = result
    /\ UNCHANGED <<graph_vars, api_last, merge_calls, pages, config, i, chunk_pages,
                   existing_nodes, existing_edges, chunk_components, chunk_relationships, j, chunks,
                   calls, comp_outcome, rel_outcome, yielded, returned, served,
                   step_vars, audit_vars, context_summary>>

chunk_of_overlapping(ps, start, chunk_size) ==
    SubSeq(ps, start + 1, Min(start + chunk_size + 1, Len(ps)))

\* pages[i:i + chunk_size]
chunk_of(ps, start, chunk_size) == SubSeq(ps, start + 1, Min(start + chunk_size, Len(ps)))

\* lines 51-61: the next value of range(0, len(pages), chunk_size), the slice,
\* and the arguments of _extract_from_chunk
FormChunk ==
    /\ pc = "loop"
    /\ i < Len(pages)
    /\ chunk_pages' = chunk_of(pages, i, config.PAGES_PER_CHUNK)
    /\ chunks' = Append(chunks, chunk_pages')
    /\ existing_nodes' = nodes
    /\ existing_edges' = edges
    /\ chunk_components' = <<>>
    /\ chunk_relationships' = <<>>
    /\ comp_outcome' = "pending"
    /\ rel_outcome' = "pending"
    /\ j' = 0
    /\ rel_response' = NoResponse
    /\ pc' = "components"
    /\ UNCHANGED <<graph_vars, api_last, merge_calls, pages, config, i, result, calls, yielded,
                   returned, served, response, audit_vars, context_summary>>

\* lines 96-101: _extract_components_from_chunk with the service's response r
ComponentStep(r) ==
    /\ pc = "components"
    /\ chunk_components' = _extract_components_from_chunk(r, chunk_pages)
    /\ calls' = Append(calls, <<"components", i>>)
    /\ comp_outcome' = r.kind
    /\ yielded' = yielded \o chunk_components'
    /\ served' = served + Len(r.items)
    /\ pc' = "relations"
    /\ UNCHANGED <<graph_vars, api_last, merge_calls, pages, config, i, chunk_pages,
                   existing_nodes, existing_edges, chunk_relationships, j, result, chunks, rel_outcome,
                   returned, step_vars, audit_vars, context_summary>>

position_after_edges_first(comps, rels, in_edges, done) ==
    IF ~in_edges /\ done = 0 /\ Len(rels) > 0 THEN [pc |-> "add_edges", j |-> 1]
    ELSE IF in_edges /\ done < Len(rels) THEN [pc |-> "add_edges", j |-> done + 1]
    ELSE IF in_edges /\ Len(comps) > 0 THEN [pc |-> "add_nodes", j |-> 1]
    ELSE IF ~in_edges /\ done < Len(comps) THEN [pc |-> "add_nodes", j |-> done + 1]
    ELSE [pc |-> "loop", j |-> 0]

position_after_next_chunk_early(comps, rels, in_edges, done) ==
    IF ~in_edges /\ done < Len(comps) THEN [pc |-> "add_nodes", j |-> done + 1]
    ELSE IF ~in_edges /\ Len(rels) > 0 THEN [pc |-> "add_edges", j |-> 1]
    ELSE [pc |-> "loop", j |-> 0]

position_after_nodes_need_edges(comps, rels, in_edges, done) ==
    IF ~in_edges /\ Len(rels) = 0 THEN [pc |-> "loop", j |-> 0]
    ELSE IF ~in_edges /\ done < Len(comps) THEN [pc |-> "add_nodes", j |-> done + 1]
    ELSE IF ~in_edges THEN [pc |-> "add_edges", j |-> 1]
    ELSE IF in_edges /\ done < Len(rels) THEN [pc |-> "add_edges", j |-> done + 1]
    ELSE [pc |-> "loop", j |-> 0]

\* where the driver stands once _extract_from_chunk has returned comps and rels
\* and the first `done` calls of the add_node loop (or, with in_edges, of the
\* add_edge loop) of lines 64-69 are made
position_after(comps, rels, in_edges, done) ==
    IF ~in_edges /\ done < Len(comps) THEN [pc |-> "add_nodes", j |-> done + 1]
    ELSE IF ~in_edges /\ Len(rels) > 0 THEN [pc |-> "add_edges", j |-> 1]
    ELSE IF in_edges /\ done < Len(rels) THEN [pc |-> "add_edges", j |-> done + 1]
    ELSE [pc |-> "loop", j |-> 0]

Advance_same_offset(pos) ==
    /\ pc' = pos.pc
    /\ j' = pos.j
    /\ i' = i

Advance(pos) ==
    /\ pc' = pos.pc
    /\ j' = pos.j
    /\ i' = IF pos.pc = "loop" THEN i + config.PAGES_PER_CHUNK ELSE i

\* lines 329-330: no components in the chunk, no call
RelationStepSkipped ==
    /\ pc = "relations"
    /\ ~issues_relation_call(chunk_components)
    /\ chunk_relationships' =
          _extract_relationships_from_chunk(NoResponse, chunk_components, existing_nodes)
    /\ rel_outcome' = "skipped"
    /\ Advance(position_after(chunk_components, chunk_relationships', FALSE, 0))
    /\ UNCHANGED <<graph_vars, api_last, merge_calls, pages, config, chunk_pages,
                   existing_nodes, existing_edges, chunk_components, result, chunks, calls, comp_outcome,
                   yielded, returned, served, step_vars, audit_vars, context_summary>>

\* lines 104-111: _extract_relationships_from_chunk with the service's response r
RelationStep(r) ==
    /\ pc = "relations"
    /\ issues_relation_call(chunk_components)
    /\ chunk_relationships' =
          _extract_relationships_from_chunk(r, chunk_components, existing_nodes)
    /\ calls' = Append(calls, <<"relations", i>>)
    /\ rel_outcome' = r.kind
    /\ returned' = returned \o chunk_relationships'
    /\ served' = served + Len(r.items)
    /\ rel_response' = r
    /\ Advance(position_after(chunk_components, chunk_relationships', FALSE, 0))
    /\ UNCHANGED <<graph_vars, api_last, merge_calls, pages, config, chunk_pages,
                   existing_nodes, existing_edges, chunk_components, result, chunks, comp_outcome,
                   yielded, response, audit_vars, context_summary>>

\* lines 64-65: one iteration of the add_node loop
DriverAddNode ==
    /\ pc = "add_nodes"
    /\ nodes' = add_node(nodes, chunk_components[j])
    /\ merge_calls' = [merge_calls EXCEPT !.nodes = @ + 1]
    /\ Advance(position_after(chunk_components, chunk_relationships, FALSE, j))
    /\ UNCHANGED <<edges, api_last, pages, config, chunk_pages, existing_nodes,
                   existing_edges, chunk_components, chunk_relationships, result, chunks,
                   calls, comp_outcome, rel_outcome, yielded, returned, served,
                   step_vars, audit_vars, context_summary>>

\* lines 68-69: one iteration of the add_edge loop
DriverAddEdge ==
    /\ pc = "add_edges"
    /\ edges' = add_edge(nodes, edges, chunk_relationships[j])
    /\ merge_calls' = [merge_calls EXCEPT !.edges = @ + 1]
    /\ Advance(position_after(chunk_components, chunk_relationships, TRUE, j))
    /\ UNCHANGED <<nodes, api_last, pages, config, chunk_pages, existing_nodes,
                   existing_edges, chunk_components, chunk_relationships, result, chunks,
                   calls, comp_outcome, rel_outcome, yielded, returned, served,
                   step_vars, audit_vars, context_summary>>

\* line 71: the loop is exhausted
Finish ==
    /\ pc = "loop"
    /\ i >= Len(pages)
    /\ result' = to_dict(nodes, edges)
    /\ pc' = "done"
    /\ UNCHANGED <<graph_vars, api_last, merge_calls, pages, config, i, chunk_pages,
                   existing_nodes, existing_edges, chunk_components, chunk_relationships, j, chunks,
                   calls, comp_outcome, rel_outcome, yielded, returned, served,
                   step_vars, audit_vars, context_summary>>

\* the steps of extract_argument_graph once it is called
NextRun ==
    \/ Start
    \/ FormChunk
    \/ \E r \in Responses(DriverComponentCandidates, MaxServed - served) : ComponentStep(r)
    \/ RelationStepSkipped
    \/ \E r \in Responses(DriverRelationCandidates, MaxServed - served) : RelationStep(r)
    \/ DriverAddNode
    \/ DriverAddEdge
    \/ Finish

Next ==
    \/ \E api_key \in BOOLEAN : SetOpenaiApiKey(api_key)
    \/ NextRun

Spec == InitDriver /\ [][Next]_vars

\* the caller calls extract_argument_graph, every call of the reasoning service
\* returns or raises, and the interpreter keeps executing the function until
\* it returns or raises
SpecLive == InitDriver /\ [][Next]_vars /\ WF_vars(NextRun)

(***************************************************************************)
(* SpecStep: the two extraction steps of one chunk as functions of the     *)
(* service's responses.  Init draws the chunk, the prior components and    *)
(* the response to the component call; the relation call draws its own.    *)
(***************************************************************************)
CandShort == ComponentData(TRUE, TRUE, TextY, TRUE, "Evidence", FALSE, 0)
CandLowerCase == ComponentData(TRUE, TRUE, TextZ, TRUE, "claim", FALSE, 0)
CandString == ComponentString(TextHello)
CandStringText == ComponentString(TextSomeText)

CandConclusion == ComponentData(TRUE, TRUE, TextZ, TRUE, "Conclusion", TRUE, 1)

StepComponentCandidates ==
    DriverComponentCandidates
    \cup {CandShort, CandLowerCase, CandString, CandStringText, CandConclusion}

RelNoTarget == RelationData(TRUE, IdA, FALSE, NoId, TRUE, "supported_by")

RelString == RelationString(TextTheSource)
RelStringRelation == RelationString(TextARelation)

StepRelationCandidates ==
    {RelSupports, RelSelf, RelBadType, RelNoTarget, RelNumber, RelString, RelStringRelation}

StepChunkPages == {chunk_of(PageList(MaxPages), start, MaxChunk) : start \in 0..(MaxPages - 1)}

StepExisting == {<<>>, <<ArgumentComponent(IdA, "Claim", TextXY, 1)>>}

InitStep ==
    /\ nodes = <<>>
    /\ edges = <<>>
    /\ api_last = [op |-> "none", component |-> NoComponent, relation |-> NoRelation]
    /\ pages = <<>>
    /\ config = NoConfig
    /\ pc = "step"
    /\ i = 0
    /\ chunk_pages \in StepChunkPages
    /\ existing_nodes \in StepExisting
    /\ existing_edges = <<>>
    /\ chunk_components = <<>>
    /\ chunk_relationships = <<>>
    /\ j = 0
    /\ result = "none"
    /\ chunks = <<>>
    /\ calls = <<>>
    /\ comp_outcome = "pending"
    /\ rel_outcome = "pending"
    /\ yielded = <<>>
    /\ returned = <<>>
    /\ served = 0
    /\ merge_calls = [nodes |-> 0, edges |-> 0]
    /\ AuditIdle
    /\ response \in Responses(StepComponentCandidates, MaxBatch)
    /\ rel_response = NoResponse

StepComponents ==
    /\ pc = "step"
    /\ chunk_components' = _extract_components_from_chunk(response, chunk_pages)
    /\ comp_outcome' = response.kind
    /\ pc' = "step_components"
    /\ UNCHANGED <<graph_vars, api_last, merge_calls, pages, config, i, chunk_pages,
                   existing_nodes, existing_edges, chunk_relationships, j, result, chunks,
                   calls, rel_outcome, yielded, returned, served, step_vars, audit_vars,
                   context_summary>>

StepRelationsSkipped ==
    /\ pc = "step_components"
    /\ ~issues_relation_call(chunk_components)
    /\ chunk_relationships' =
          _extract_relationships_from_chunk(NoResponse, chunk_components, existing_nodes)
    /\ rel_outcome' = "skipped"
    /\ pc' = "step_relations"
    /\ UNCHANGED <<graph_vars, api_last, merge_calls, pages, config, i, chunk_pages,
                   existing_nodes, existing_edges, chunk_components, j, result, chunks,
                   calls, comp_outcome, yielded, returned, served, step_vars, audit_vars,
                   context_summary>>

StepRelations(r) ==
    /\ pc = "step_components"
    /\ issues_relation_call(chunk_components)
    /\ rel_response' = r
    /\ chunk_relationships' =
          _extract_relationships_from_chunk(r, chunk_components, existing_nodes)
    /\ rel_outcome' = r.kind
    /\ pc' = "step_relations"
    /\ UNCHANGED <<graph_vars, api_last, merge_calls, pages, config, i, chunk_pages,
                   existing_nodes, existing_edges, chunk_components, j, result, chunks,
                   calls, comp_outcome, yielded, returned, served, response, audit_vars,
                   context_summary>>

NextStep ==
    \/ StepComponents
    \/ StepRelationsSkipped
    \/ \E r \in Responses(StepRelationCandidates, MaxBatch) : StepRelations(r)

SpecStep == InitStep /\ [][NextStep]_vars

(***************************************************************************)
(* Properties of the graph container.                                      *)


(***************************************************************************)
(* Re-run specification: the body of the chunk loop of                     *)
(* extract_argument_graph (lines 51-69) executed twice on the same chunk,  *)
(* the service answering the second time as it did the first.              *)
(***************************************************************************)
RECURSIVE add_nodes(_, _)
add_nodes(ns, components) ==
    IF components = <<>> THEN ns
    ELSE add_nodes(add_node(ns, Head(components)), Tail(components))

RECURSIVE add_edges(_, _, _)
add_edges(ns, es, relations) ==
    IF relations = <<>> THEN es
    ELSE add_edges(ns, add_edge(ns, es, Head(relations)), Tail(relations))

RerunComponentCandidates == {CandClaim, CandEvidence, CandPaged, CandEmptyText}
RerunRelationCandidates == {RelSupports, RelSupports2, RelSelf, RelBadType}

InitRerun ==
    /\ nodes \in StepExisting
    /\ edges = <<>>
    /\ api_last = [op |-> "none", component |-> NoComponent, relation |-> NoRelation]
    /\ pages = <<>>
    /\ config = NoConfig
    /\ pc = "first_run"
    /\ i = 0
    /\ chunk_pages \in StepChunkPages
    /\ existing_nodes = <<>>
    /\ existing_edges = <<>>
    /\ chunk_components = <<>>
    /\ chunk_relationships = <<>>
    /\ j = 0
    /\ result = "none"
    /\ chunks = <<>>
    /\ calls = <<>>
    /\ comp_outcome = "pending"
    /\ rel_outcome = "pending"
    /\ yielded = <<>>
    /\ returned = <<>>
    /\ served = 0
    /\ merge_calls = [nodes |-> 0, edges |-> 0]
    /\ AuditIdle
    /\ response \in Responses(RerunComponentCandidates, MaxBatch)
    /\ rel_response \in Responses(RerunRelationCandidates, MaxBatch)

\* lines 56-69: both extraction steps, then the add_node and add_edge loops
RunChunk(after) ==
    /\ existing_nodes' = nodes
    /\ existing_edges' = edges
    /\ chunk_components' = _extract_components_from_chunk(response, chunk_pages)
    /\ chunk_relationships' =
          _extract_relationships_from_chunk(rel_response, chunk_components', nodes)
    /\ comp_outcome' = response.kind
    /\ rel_outcome' = IF issues_relation_call(chunk_components') THEN rel_response.kind
                      ELSE "skipped"
    /\ nodes' = add_nodes(nodes, chunk_components')
    /\ edges' = add_edges(nodes', edges, chunk_relationships')
    /\ pc' = after
    /\ UNCHANGED <<api_last, merge_calls, pages, config, i, chunk_pages, j, result, chunks,
                   calls, yielded, returned, served, step_vars, audit_vars, context_summary>>

FirstRun == pc = "first_run" /\ RunChunk("second_run")

SecondRun == pc = "second_run" /\ RunChunk("rerun_done")

NextRerun ==
    \/ FirstRun
    \/ SecondRun

SpecRerun == InitRerun /\ [][NextRerun]_vars


(***************************************************************************)
(* Audit specification: a graph whose node and edge lists are filled       *)
(* directly (list.append on the public attributes, bypassing add_node and  *)
(* add_edge) and then handed to validate().                                *)
(***************************************************************************)
MaxDirect == 2

AuditRelations ==
    {ArgumentRelation(source, target, "supported_by", 1) :
        source \in {IdA, IdB}, target \in {IdA, IdB}}

InitAudit ==
    /\ nodes = <<>>
    /\ edges = <<>>
    /\ api_last = [op |-> "none", component |-> NoComponent, relation |-> NoRelation]
    /\ pages = <<>>
    /\ config = NoConfig
    /\ pc = "audit"
    /\ i = 0
    /\ chunk_pages = <<>>
    /\ existing_nodes = <<>>
    /\ existing_edges = <<>>
    /\ chunk_components = <<>>
    /\ chunk_relationships = <<>>
    /\ j = 0
    /\ result = "none"
    /\ chunks = <<>>
    /\ calls = <<>>
    /\ comp_outcome = "pending"
    /\ rel_outcome = "pending"
    /\ yielded = <<>>
    /\ returned = <<>>
    /\ served = 0
    /\ merge_calls = [nodes |-> 0, edges |-> 0]
    /\ AuditIdle
    /\ response = NoResponse
    /\ rel_response = NoResponse

\* graph.nodes.append(component)
AppendNode(component) ==
    /\ pc = "audit"
    /\ Len(nodes) < MaxDirect
    /\ nodes' = Append(nodes, component)
    /\ errors' = NoErrors
    /\ UNCHANGED <<edges, api_last, driver_vars, step_vars, candidate, context_summary>>

\* graph.edges.append(relation)
AppendEdge(relation) ==
    /\ pc = "audit"
    /\ Len(edges) < MaxDirect
    /\ edges' = Append(edges, relation)
    /\ errors' = NoErrors
    /\ UNCHANGED <<nodes, api_last, driver_vars, step_vars, candidate, context_summary>>

\* components.py:205-234
AuditValidate ==
    /\ pc = "audit"
    /\ ~errors.done
    /\ errors' = [done |-> TRUE, raised |-> FALSE, list |-> validate(nodes, edges)]
    /\ UNCHANGED <<graph_vars, api_last, driver_vars, step_vars, candidate, context_summary>>

NextAudit ==
    \/ \E component \in GraphComponents : AppendNode(component)
    \/ \E relation \in AuditRelations : AppendEdge(relation)
    \/ AuditValidate

SpecAudit == InitAudit /\ [][NextAudit]_vars


(***************************************************************************)
(* Merge specification: utils.merge_overlapping_components applied to one  *)
(* list of validated components of a chunk.                                *)
(***************************************************************************)
MaxMerge == 3

\* "A very long claim about X and Y"
TextLongClaim ==
    <<"A", " ", "v", "e", "r", "y", " ", "l", "o", "n", "g", " ", "c", "l",
      "a", "i", "m", " ", "a", "b", "o", "u", "t", " ", "X", " ", "a", "n",
      "d", " ", "Y">>

\* "X and Y"
TextXandY ==
    <<"X", " ", "a", "n", "d", " ", "Y">>

MergeTexts == {TextLongClaim, TextXandY, TextXY, TextY, TextZ}
MergeTypes == {"Claim", "Evidence"}

MergeInputs ==
    UNION {{[k \in 1..n |->
                ArgumentComponent(generate_component_id(f[k][2], 1, k - 1),
                                  f[k][2], f[k][1], 1)] :
             f \in [1..n -> MergeTexts \X MergeTypes]} : n \in 0..MaxMerge}

InitMerge ==
    /\ nodes = <<>>
    /\ edges = <<>>
    /\ api_last = [op |-> "none", component |-> NoComponent, relation |-> NoRelation]
    /\ pages = <<>>
    /\ config = NoConfig
    /\ pc = "merge"
    /\ i = 0
    /\ chunk_pages = <<>>
    /\ existing_nodes = <<>>
    /\ existing_edges = <<>>
    /\ chunk_components = <<>>
    /\ chunk_relationships = <<>>
    /\ j = 0
    /\ result = "none"
    /\ chunks = <<>>
    /\ calls = <<>>
    /\ comp_outcome = "pending"
    /\ rel_outcome = "pending"
    /\ yielded = <<>>
    /\ returned = <<>>
    /\ served = 0
    /\ merge_calls = [nodes |-> 0, edges |-> 0]
    /\ candidate \in {[of |-> "merge", data |-> components] : components \in MergeInputs}
    /\ errors = NoErrors
    /\ context_summary = NoContext
    /\ response = NoResponse
    /\ rel_response = NoResponse

\* utils.py:182-215
MergeOverlapping ==
    /\ pc = "merge"
    /\ chunk_components' = merge_overlapping_components(candidate.data)
    /\ pc' = "merged"
    /\ UNCHANGED <<graph_vars, api_last, merge_calls, pages, config, i, chunk_pages,
                   existing_nodes, existing_edges, chunk_relationships, j, result, chunks,
                   calls, comp_outcome, rel_outcome, yielded, returned, served, step_vars,
                   audit_vars, context_summary>>

NextMerge == MergeOverlapping

SpecMerge == InitMerge /\ [][NextMerge]_vars


(***************************************************************************)
(* argument_extractor._prepare_context_summary.  The digest is kept as its *)
(* parts: the 'No previous components found.' marker, the component        *)
(* summary and, when the relation list is non-empty, the relation summary. *)
(* An absent existing_edges argument (None) is the empty list.             *)
(***************************************************************************)
ContextTextLimit == 100
Ellipsis == <<".", ".", ".">>

summary_text(text) ==
    IF Len(text) > ContextTextLimit THEN SubSeq(text, 1, ContextTextLimit) \o Ellipsis
    ELSE text

component_summary(ns) ==
    [k \in 1..Len(ns) |->
        [id |-> ns[k].id, type |-> ns[k].type, text |-> summary_text(ns[k].text),
         page |-> ns[k].page]]

relation_summary(es) ==
    [k \in 1..Len(es) |->
        [source |-> es[k].source, target |-> es[k].target, relation |-> es[k].relation,
         page |-> es[k].page]]

_prepare_context_summary_last_only(ns, es) ==
    IF ns = <<>>
    THEN [marker |-> TRUE, components |-> <<>>, has_relations |-> FALSE, relations |-> <<>>]
    ELSE [marker |-> FALSE,
          components |-> component_summary(<<ns[Len(ns)]>>),
          has_relations |-> es # <<>>,
          relations |-> relation_summary(es)]

_prepare_context_summary(ns, es) ==
    IF ns = <<>>
    THEN [marker |-> TRUE, components |-> <<>>, has_relations |-> FALSE, relations |-> <<>>]
    ELSE [marker |-> FALSE,
          components |-> component_summary(ns),
          has_relations |-> es # <<>>,
          relations |-> relation_summary(es)]

(***************************************************************************)
(* Context specification: _prepare_context_summary applied to one list of  *)
(* previous components and one list of previous relations.                 *)
(***************************************************************************)
MaxContext == 2

TextAtLimit == [k \in 1..ContextTextLimit |-> "a"]
TextOverLimit == TextAtLimit \o <<"b", "c">>

ContextComponents ==
    {ArgumentComponent(IdA, "Claim", TextXY, 1),
     ArgumentComponent(IdB, "Evidence", TextAtLimit, 2),
     ArgumentComponent(IdB2, "Evidence", TextOverLimit, 2)}

ContextRelations ==
    {ArgumentRelation(IdA, IdB, "supported_by", 2), ArgumentRelation(IdA, IdA, "leads_to", 1)}

SeqsUpTo(S, n) == UNION {[1..m -> S] : m \in 0..n}

InitContext ==
    /\ nodes = <<>>
    /\ edges = <<>>
    /\ api_last = [op |-> "none", component |-> NoComponent, relation |-> NoRelation]
    /\ pages = <<>>
    /\ config = NoConfig
    /\ pc = "context"
    /\ i = 0
    /\ chunk_pages = <<>>
    /\ existing_nodes \in SeqsUpTo(ContextComponents, MaxContext)
    /\ existing_edges \in SeqsUpTo(ContextRelations, MaxContext)
    /\ chunk_components = <<>>
    /\ chunk_relationships = <<>>
    /\ j = 0
    /\ result = "none"
    /\ chunks = <<>>
    /\ calls = <<>>
    /\ comp_outcome = "pending"
    /\ rel_outcome = "pending"
    /\ yielded = <<>>
    /\ returned = <<>>
    /\ served = 0
    /\ merge_calls = [nodes |-> 0, edges |-> 0]
    /\ AuditIdle
    /\ response = NoResponse
    /\ rel_response = NoResponse

\* line 333: _prepare_context_summary(existing_nodes, existing_edges)
PrepareContext ==
    /\ pc = "context"
    /\ context_summary' = _prepare_context_summary(existing_nodes, existing_edges)
    /\ pc' = "context_done"
    /\ UNCHANGED <<graph_vars, api_last, merge_calls, pages, config, i, chunk_pages,
                   existing_nodes, existing_edges, chunk_components, chunk_relationships,
                   j, result, chunks, calls, comp_outcome, rel_outcome, yielded, returned,
                   served, step_vars, candidate, errors>>

NextContext == PrepareContext

SpecContext == InitContext /\ [][NextContext]_vars

(***************************************************************************)
(* Validation specification: validate_component_data and                   *)
(* validate_relation_data applied to one candidate each.                   *)
(***************************************************************************)
ValidateTypes == valid_types \cup {"claim", "Unknown"}
ValidateRelationNames == valid_relations \cup {"Supported_By", "supports"}

ValidateComponentInputs ==
    {ComponentData(has_text, text_is_str, text, has_type, type, has_page, page) :
        has_text \in BOOLEAN, text_is_str \in BOOLEAN, text \in {TextXY, TextEmpty},
        has_type \in BOOLEAN, type \in ValidateTypes, has_page \in BOOLEAN, page \in {0, 1}}
    \cup {ComponentString(t) : t \in {TextHello, TextEmpty, FieldText, TextSomeText,
                                      TextAType, TextPage3}}
    \cup {ComponentNonDict("number")}

ValidateRelationInputs ==
    {RelationData(has_source, IdA, has_target, IdB, has_relation, relation) :
        has_source \in BOOLEAN, has_target \in BOOLEAN, has_relation \in BOOLEAN,
        relation \in ValidateRelationNames}
    \cup {RelationString(t) : t \in {TextHello, TextTheSource, TextTarget, FieldRelation,
                                     TextARelation}}
    \cup {RelationNonDict("number")}

InitValidate ==
    /\ nodes = <<>>
    /\ edges = <<>>
    /\ api_last = [op |-> "none", component |-> NoComponent, relation |-> NoRelation]
    /\ DriverIdle
    /\ response = NoResponse
    /\ rel_response = NoResponse
    /\ candidate \in {[of |-> "component", data |-> d] : d \in ValidateComponentInputs}
                     \cup {[of |-> "relation", data |-> d] : d \in ValidateRelationInputs}
    /\ errors = NoErrors
    /\ context_summary = NoContext

\* utils.py:60-96
ValidateComponent ==
    /\ candidate.of = "component"
    /\ ~errors.done
    /\ errors' = [done |-> TRUE,
                  raised |-> validate_component_data(candidate.data).raised,
                  list |-> IF validate_component_data(candidate.data).raised THEN <<>>
                           ELSE validate_component_data(candidate.data).errors]
    /\ UNCHANGED <<graph_vars, api_last, driver_vars, step_vars, candidate, context_summary>>

\* utils.py:99-124
ValidateRelation ==
    /\ candidate.of = "relation"
    /\ ~errors.done
    /\ errors' = [done |-> TRUE,
                  raised |-> validate_relation_data(candidate.data).raised,
                  list |-> IF validate_relation_data(candidate.data).raised THEN <<>>
                           ELSE validate_relation_data(candidate.data).errors]
    /\ UNCHANGED <<graph_vars, api_last, driver_vars, step_vars, candidate, context_summary>>

NextValidate ==
    \/ ValidateComponent
    \/ ValidateRelation

SpecValidate == InitValidate /\ [][NextValidate]_vars

(***************************************************************************)
SameTriple(e, r) ==
    e.source = r.source /\ e.target = r.target /\ e.relation = r.relation

NoDanglingEdges ==
    \A k \in 1..Len(edges) :
        NodeExists(nodes, edges[k].source) /\ NodeExists(nodes, edges[k].target)

DanglingAddEdgeIsNoOp ==
    (/\ api_last'.op = "add_edge"
     /\ \/ ~NodeExists(nodes, api_last'.relation.source)
        \/ ~NodeExists(nodes, api_last'.relation.target))
    => (nodes' = nodes /\ edges' = edges)

\* C1: add_edge with a relation whose source or target is not the id of a node
\* of the graph changes neither nodes nor edges, and in every reachable graph
\* both endpoints of every edge are ids of nodes.
C1_NoDanglingEdges == []NoDanglingEdges /\ [][DanglingAddEdgeIsNoOp]_vars

C1_Witness ==
    /\ api_last.op = "add_edge"
    /\ NodeExists(nodes, api_last.relation.source)
    /\ ~NodeExists(nodes, api_last.relation.target)
    /\ Len(nodes) = 1

UniqueNodeIds ==
    \A k, m \in 1..Len(nodes) : nodes[k].id = nodes[m].id => k = m

DuplicateAddNodeIsNoOp ==
    (api_last'.op = "add_node" /\ NodeExists(nodes, api_last'.component.id))
    => (nodes' = nodes /\ edges' = edges)

\* C2: add_node with a component whose id is already present changes neither
\* nodes nor edges, and in every reachable graph no two nodes share an id.
C2_AddNodeIdempotent == []UniqueNodeIds /\ [][DuplicateAddNodeIsNoOp]_vars

C2_Witness ==
    /\ api_last.op = "add_node"
    /\ \E k \in 1..Len(nodes) :
          /\ nodes[k].id = api_last.component.id
          /\ nodes[k].text # api_last.component.text
    /\ Len(edges) >= 1

\* C3: no reachable graph holds an edge whose source equals its target
\* (add_edge rejects self-loops).
C3_NoSelfLoops ==
    \A k \in 1..Len(edges) : edges[k].source # edges[k].target

UniqueTriples ==
    \A k, m \in 1..Len(edges) : SameTriple(edges[k], edges[m]) => k = m

DuplicateTripleIsNoOp ==
    (/\ api_last'.op = "add_edge"
     /\ \E k \in 1..Len(edges) : SameTriple(edges[k], api_last'.relation))
    => (nodes' = nodes /\ edges' = edges)

NewTripleIsInserted ==
    (/\ api_last'.op = "add_edge"
     /\ NodeExists(nodes, api_last'.relation.source)
     /\ NodeExists(nodes, api_last'.relation.target)
     /\ ~\E k \in 1..Len(edges) : SameTriple(edges[k], api_last'.relation))
    => (nodes' = nodes /\ edges' = Append(edges, api_last'.relation))

\* C4: add_edge with the (source, target, relation) triple of an edge already
\* in the graph leaves the edge list unchanged whatever its page; a relation
\* between existing nodes whose triple is new, such as one that differs from
\* an edge only in its relation type, is appended; so the triples of the
\* edges are pairwise distinct in every reachable graph.
C4_TripleIdempotent ==
    /\ []UniqueTriples
    /\ [][DuplicateTripleIsNoOp /\ NewTripleIsInserted]_vars

C4_Witness ==
    /\ api_last.op = "add_edge"
    /\ \E k, m \in 1..Len(edges) :
          /\ SameTriple(edges[k], api_last.relation)
          /\ edges[k].page # api_last.relation.page
          /\ edges[m].source = edges[k].source
          /\ edges[m].target = edges[k].target
          /\ edges[m].source # edges[m].target
          /\ edges[m].relation # edges[k].relation

(***************************************************************************)
(* Properties of the driver.                                               *)
(***************************************************************************)
Flatten(seqs) ==
    LET F[k \in 0..Len(seqs)] == IF k = 0 THEN <<>> ELSE F[k - 1] \o seqs[k]
    IN  F[Len(seqs)]

CeilDiv(n, k) == (n + k - 1) \div k

IsPrefix(s, t) == Len(s) <= Len(t) /\ SubSeq(t, 1, Len(s)) = s

Running == pc \in {"loop", "components", "relations", "add_nodes", "add_edges", "done"}

\* C5: the driver forms ceil(N/k) chunks; each holds between 1 and k pages,
\* and the chunks concatenated in processing order are the page sequence
\* itself (a prefix of it while the run is under way), so the chunks are
\* contiguous, disjoint and cover every page once.
C5_ChunkPlanner ==
    Running =>
        /\ \A c \in 1..Len(chunks) :
              Len(chunks[c]) >= 1 /\ Len(chunks[c]) <= config.PAGES_PER_CHUNK
        /\ IsPrefix(Flatten(chunks), pages)
        /\ pc = "done" =>
              /\ Len(chunks) = CeilDiv(Len(pages), config.PAGES_PER_CHUNK)
              /\ Flatten(chunks) = pages

C5_Witness ==
    /\ pc = "done"
    /\ Len(pages) = 3
    /\ config.PAGES_PER_CHUNK = 2
    /\ Len(chunks) = 2
    /\ Len(chunks[2]) = 1

CallsInPageOrder ==
    \A a, b \in 1..Len(calls) :
        a < b => /\ calls[a][2] <= calls[b][2]
                 /\ calls[a][1] = calls[b][1] => calls[a][2] < calls[b][2]

\* C6: whenever a call of the reasoning service is due (the component call or
\* the relation call of a chunk), every component and relation returned for
\* the earlier chunks has gone through add_node / add_edge, the existing-node
\* and existing-edge inputs of the chunk are the graph's lists as they stand,
\* and the calls issued so far are in page order.
C6_ChunksInOrder ==
    /\ CallsInPageOrder
    /\ pc \in {"components", "relations"} =>
          /\ merge_calls.nodes = Len(yielded) - Len(chunk_components)
          /\ merge_calls.edges = Len(returned)
          /\ existing_nodes = nodes
          /\ existing_edges = edges

C6_Witness ==
    /\ pc = "relations"
    /\ Len(chunks) = 2
    /\ Len(chunk_components) >= 1
    /\ Len(existing_nodes) >= 1
    /\ Len(existing_edges) >= 1

\* C7: when the component call of a chunk raises or returns text without a
\* parseable JSON array, the step returns no component, no relation call is
\* issued for the chunk, the graph stays as it was when the chunk began, and
\* the driver moves on to the next offset.
C7_ComponentFailureSkipsChunk ==
    comp_outcome \in FailureKinds =>
        /\ chunk_components = <<>>
        /\ chunk_relationships = <<>>
        /\ pc \in {"relations", "loop", "done"}
        /\ calls[Len(calls)][1] = "components"
        /\ nodes = existing_nodes
        /\ edges = existing_edges
        /\ pc # "relations" =>
              /\ rel_outcome = "skipped"
              /\ i = calls[Len(calls)][2] + config.PAGES_PER_CHUNK

C7_Witness ==
    /\ comp_outcome \in {"raise", "garbage"}
    /\ pc = "loop"
    /\ i < Len(pages)
    /\ Len(nodes) >= 1
    /\ Len(edges) >= 1

\* C8: when the relation call of a chunk raises or returns unparseable text,
\* the step returns no relation, the chunk's components are still added to
\* the graph, no edge is added, the nodes and edges of earlier chunks are
\* untouched, and the driver moves on to the next offset.
C8_RelationFailureKeepsComponents ==
    rel_outcome \in FailureKinds =>
        /\ chunk_relationships = <<>>
        /\ calls[Len(calls)][1] = "relations"
        /\ pc \in {"add_nodes", "loop", "done"}
        /\ edges = existing_edges
        /\ IsPrefix(existing_nodes, nodes)
        /\ pc # "add_nodes" =>
              /\ \A k \in 1..Len(chunk_components) :
                    NodeExists(nodes, chunk_components[k].id)
              /\ merge_calls.nodes = Len(yielded)
              /\ i = calls[Len(calls)][2] + config.PAGES_PER_CHUNK

C8_Witness ==
    /\ rel_outcome \in {"raise", "bad_array"}
    /\ pc = "loop"
    /\ i < Len(pages)
    /\ Len(existing_nodes) >= 1
    /\ Len(nodes) > Len(existing_nodes)
    /\ Len(edges) >= 1

(***************************************************************************)
(* Properties of the extraction steps.                                     *)
(***************************************************************************)
PassesComponentValidation(d) ==
    ~validate_component_data(d).raised /\ validate_component_data(d).errors = <<>>

PassesRelationValidation(d) ==
    ~validate_relation_data(d).raised /\ validate_relation_data(d).errors = <<>>

\* C9: in a batch returned by the service, candidates that fail validation
\* are dropped alone.  Every component candidate that passes validation is
\* returned by the step or gives way in the merge pass to a returned
\* component whose text overlaps its own; every relation candidate that
\* passes validation is returned.
C9_InvalidCandidateDroppedAlone ==
    /\ (pc \in {"step_components", "step_relations"} /\ response.kind = "array") =>
          \A k \in 1..Len(response.items) :
              PassesComponentValidation(response.items[k]) =>
                  Overlaps(response.items[k].text, chunk_components)
    /\ (pc = "step_relations" /\ rel_response.kind = "array") =>
          \A k \in 1..Len(rel_response.items) :
              PassesRelationValidation(rel_response.items[k]) =>
                  \E m \in 1..Len(chunk_relationships) :
                      SameTriple(chunk_relationships[m], rel_response.items[k])

\* C10: a 2-page document for which the component steps return one Claim of
\* page 1 and one Evidence of page 2, and every relation call returns the
\* relation P1-C1 supported_by P2-E1, ends with the nodes P1-C1 and P2-E1 and
\* one edge, of page 2.
C10_EndToEnd ==
    (/\ pc = "done"
     /\ Len(pages) = 2
     /\ Len(yielded) = 2
     /\ \E a, b \in 1..2 :
           /\ yielded[a].type = "Claim" /\ yielded[a].page = 1
           /\ yielded[b].type = "Evidence" /\ yielded[b].page = 2
     /\ Len(returned) >= 1
     /\ \A k \in 1..Len(returned) :
           /\ returned[k].source = IdA
           /\ returned[k].target = IdB
           /\ returned[k].relation = "supported_by"
     /\ rel_outcome = "array"
     /\ chunk_relationships # <<>>)
    => /\ Len(nodes) = 2
       /\ {nodes[k].id : k \in 1..Len(nodes)} = {IdA, IdB}
       /\ Len(edges) = 1
       /\ edges[1].page = 2

(***************************************************************************)
(* C11: ids are unique across all pages of a document.  Two components     *)
(* returned by component steps never carry the same id, so once a chunk    *)
(* has been merged every component that a component step returned is a     *)
(* node of the graph: add_node's duplicate-id guard discards none of them. *)
(***************************************************************************)
YieldedIdsDistinct ==
    \A a, b \in DOMAIN yielded : a # b => yielded[a].id # yielded[b].id

YieldedAllMerged ==
    pc \in {"loop", "done"} =>
        \A k \in DOMAIN yielded : \E n \in DOMAIN nodes : nodes[n] = yielded[k]

\* C11: no two yielded components share an id, and every yielded component is
\* a node of the graph once its chunk has been merged.
C11_IdsUniqueAcrossPages == YieldedIdsDistinct /\ YieldedAllMerged

(***************************************************************************)
(* C12: every relation returned by the relation step has the larger of the *)
(* pages of its two endpoints, each looked up by id in the previous        *)
(* components followed by the chunk's new ones, 1 standing for an id that  *)
(* resolves to neither; the step returns one relation per candidate that   *)
(* passes validation, resolved or not.  Hence every edge of the graph has  *)
(* the larger of the pages of its source node and its target node.         *)
(***************************************************************************)
PageOfId(id, components) ==
    LET hits == {k \in DOMAIN components : components[k].id = id}
    IN  IF hits = {} THEN 1
        ELSE components[CHOOSE k \in hits : \A h \in hits : k <= h].page

LargerPage(source, target, components) ==
    LET p == PageOfId(source, components)
        q == PageOfId(target, components)
    IN  IF p < q THEN q ELSE p

RelationStepPages ==
    rel_response # NoResponse =>
        /\ \A k \in DOMAIN chunk_relationships :
              chunk_relationships[k].page =
                  LargerPage(chunk_relationships[k].source, chunk_relationships[k].target,
                             existing_nodes \o chunk_components)
        /\ (rel_response.kind = "array"
              /\ \A k \in DOMAIN rel_response.items :
                    ~validate_relation_data(rel_response.items[k]).raised) =>
                  Len(chunk_relationships) =
                      Cardinality({k \in DOMAIN rel_response.items :
                                      PassesRelationValidation(rel_response.items[k])})

EdgePages ==
    \A k \in DOMAIN edges :
        edges[k].page = LargerPage(edges[k].source, edges[k].target, nodes)

\* C12: returned relations and graph edges carry the larger endpoint page.
C12_RelationPageIsMax == RelationStepPages /\ EdgePages

\* an edge between nodes of different pages sits in the finished graph, and
\* the relation step of the last chunk returned a relation
C12_Witness ==
    /\ pc = "done"
    /\ rel_response.kind = "array"
    /\ \E k \in DOMAIN edges :
          PageOfId(edges[k].source, nodes) < PageOfId(edges[k].target, nodes)

(***************************************************************************)
(* C13: validate_component_data reports 'Missing required field' for a     *)
(* candidate without text or without type and an invalid-type error for a  *)
(* type that is not exactly one of the 8 literals; validate_relation_data  *)
(* reports an invalid relation that is not exactly one of the 9 literals;  *)
(* a candidate with all required fields and exact enum values gets an      *)
(* empty error list.                                                       *)
(***************************************************************************)
ComponentTypeLiterals ==
    {"Claim", "Evidence", "Conclusion", "Counterclaim", "Background", "Method", "Result",
     "Limitation"}

RelationLiterals ==
    {"supported_by", "contradicted_by", "leads_to", "elaborates", "addresses",
     "compares_to", "builds_on", "motivates", "demonstrates"}

Reported(message) == \E k \in DOMAIN errors.list : errors.list[k] = message

ValidatedDict(of) ==
    errors.done /\ candidate.of = of /\ candidate.data.kind = "dict"

RejectionsReported ==
    /\ ValidatedDict("component") =>
          /\ ~candidate.data.has_text => Reported("Missing required field: text")
          /\ ~candidate.data.has_type => Reported("Missing required field: type")
          /\ (candidate.data.has_type /\ candidate.data.type \notin ComponentTypeLiterals)
                => Reported("Invalid type")
    /\ ValidatedDict("relation") =>
          /\ (candidate.data.has_relation /\ candidate.data.relation \notin RelationLiterals)
                => Reported("Invalid relation")
          /\ (candidate.data.has_source /\ candidate.data.has_target
                /\ candidate.data.has_relation /\ candidate.data.relation \in RelationLiterals)
                => errors.list = <<>>

RequiredAndExact ==
    /\ candidate.data.has_text
    /\ candidate.data.has_type
    /\ candidate.data.type \in ComponentTypeLiterals

\* C13: the rejections are reported, and required fields with exact enum
\* values give an empty error list.
C13_ValidationVerdicts ==
    /\ RejectionsReported
    /\ (ValidatedDict("component") /\ RequiredAndExact) => errors.list = <<>>

\* the two rejections the claim leaves out: a `text` that is no string and a
\* `page` that is present and not positive are each reported
TextAndPageReported ==
    ValidatedDict("component") =>
        /\ (candidate.data.has_text /\ ~candidate.data.text_is_str)
              => Reported("'text' must be a string")
        /\ (candidate.data.has_page /\ candidate.data.page <= 0)
              => Reported("'page' must be a positive integer")

\* a component candidate with both required fields, a `text` that is a
\* string, an exact type and, when `page` is present, a positive page
ComponentAcceptable ==
    /\ RequiredAndExact
    /\ candidate.data.text_is_str
    /\ (candidate.data.has_page => candidate.data.page > 0)

\* C13 amended: the rejections are reported, including those of a `text`
\* that is no string and of a non-positive `page`, and a component candidate
\* gets an empty error list exactly when it has the required fields, a
\* `text` that is a string, an exact type and, when `page` is present, a
\* positive page.
C13_ValidationVerdictsAmended ==
    /\ RejectionsReported
    /\ TextAndPageReported
    /\ ValidatedDict("component") => (errors.list = <<>> <=> ComponentAcceptable)

\* a candidate with a string text and an exact type but page 0 has been
\* validated, and the page message is the only one
C13_Witness ==
    /\ ValidatedDict("component")
    /\ RequiredAndExact
    /\ candidate.data.text_is_str
    /\ candidate.data.has_page
    /\ candidate.data.page <= 0
    /\ errors.list = <<"'page' must be a positive integer">>

(***************************************************************************)
(* C14: a component candidate whose text is the empty string fails         *)
(* validation and is dropped, so every node of a graph produced by         *)
(* extract_argument_graph has a non-empty text.                            *)
(***************************************************************************)
C14_NoEmptyText ==
    /\ \A k \in DOMAIN yielded : yielded[k].text # <<>>
    /\ \A k \in DOMAIN nodes : nodes[k].text # <<>>
    /\ pc = "done" => \A k \in DOMAIN result.nodes : result.nodes[k].text # <<>>

(***************************************************************************)
(* C15: with a configuration error (no API key, a non-positive chunk size  *)
(* or any other complaint of Config.validate) extract_argument_graph       *)
(* raises ValueError before any chunk is formed and before any call to     *)
(* the reasoning service, whatever the page list.                          *)
(***************************************************************************)
ConfigurationError ==
    \/ ~config.OPENAI_API_KEY
    \/ config.PAGES_PER_CHUNK <= 0
    \/ Config_validate(config) # <<>>

C15_ConfigErrorRaisesFirst ==
    (pc # "idle" /\ ConfigurationError) =>
        /\ pc \in {"start", "raised"}
        /\ pc = "raised" => result = "ValueError"
        /\ chunks = <<>>
        /\ calls = <<>>
        /\ nodes = <<>>

\* a key is set and pages are given, yet a chunk size of 0 made the call raise
C15_Witness ==
    /\ pc = "raised"
    /\ result = "ValueError"
    /\ config.OPENAI_API_KEY
    /\ config.OPENAI_MAX_TOKENS > 0
    /\ config.PAGES_PER_CHUNK = 0
    /\ Len(pages) = MaxPages

(***************************************************************************)
(* C16: in every output of extract_argument_graph each node has exactly    *)
(* the keys id, type, text, page with one of the 8 component types, each   *)
(* edge has exactly the keys source, target, relation, page with one of    *)
(* the 9 relation names, and nodes and edges are listed in the order in    *)
(* which they were inserted into the graph.                                *)
(***************************************************************************)
FirstYield(id) ==
    CHOOSE k \in DOMAIN yielded :
        yielded[k].id = id /\ \A h \in DOMAIN yielded : yielded[h].id = id => k <= h

OutputShape ==
    /\ DOMAIN result = {"nodes", "edges"}
    /\ \A k \in DOMAIN result.nodes :
          /\ DOMAIN result.nodes[k] = {"id", "type", "text", "page"}
          /\ result.nodes[k].type \in ComponentTypeLiterals
    /\ \A k \in DOMAIN result.edges :
          /\ DOMAIN result.edges[k] = {"source", "target", "relation", "page"}
          /\ result.edges[k].relation \in RelationLiterals

OutputOrder ==
    /\ Len(result.nodes) = Len(nodes)
    /\ Len(result.edges) = Len(edges)
    /\ \A k \in DOMAIN nodes : result.nodes[k].id = nodes[k].id
    /\ \A k \in DOMAIN edges : SameTriple(result.edges[k], edges[k])
    /\ \A a, b \in DOMAIN result.nodes :
          a < b => FirstYield(result.nodes[a].id) < FirstYield(result.nodes[b].id)

\* add_node and add_edge insert at the end, so list order is insertion order
InsertedAtEnd == IsPrefix(nodes, nodes') /\ IsPrefix(edges, edges')

\* C16: the output has the stated keys and enum values, mirrors the graph's
\* lists, and those lists only grow at the end.
C16_OutputShapeAndOrder ==
    /\ [](pc = "done" => (OutputShape /\ OutputOrder))
    /\ [][InsertedAtEnd]_vars

\* an output with two nodes of different types and an edge between them
C16_Witness ==
    /\ pc = "done"
    /\ Len(result.nodes) = 2
    /\ result.nodes[1].type # result.nodes[2].type
    /\ Len(result.edges) = 1
    /\ result.edges[1].source # result.edges[1].target

(***************************************************************************)
(* C17: re-running a chunk is safe.  When the same chunk is processed a    *)
(* second time and the service returns the same component and relation     *)
(* candidates, the graph after the second run equals the graph after the   *)
(* first: no node or edge is added and no field changes.                   *)
(***************************************************************************)
C17_RerunIsIdempotent ==
    pc = "rerun_done" => (nodes = existing_nodes /\ edges = existing_edges)

\* both runs yielded two components and a relation between them, and the
\* graph holds the two nodes and the edge once
C17_Witness ==
    /\ pc = "rerun_done"
    /\ Len(chunk_components) = 2
    /\ Len(chunk_relationships) >= 1
    /\ Len(nodes) = 2
    /\ Len(edges) = 1
    /\ edges[1].source # edges[1].target

(***************************************************************************)
(* C18: after add_node of one component and then add_edge of a relation    *)
(* whose source is the id of no node, validate() returns a non-empty list  *)
(* with a 'does not exist' message for the orphaned edge.                  *)
(***************************************************************************)
OrphanAddEdgeThenValidate ==
    /\ errors.done
    /\ Len(nodes) = 1
    /\ api_last.op = "add_edge"
    /\ ~NodeExists(nodes, api_last.relation.source)

\* C18: validate() after add_node and an orphaned add_edge reports the
\* missing source with a 'does not exist' message.
C18_OrphanEdgeReported ==
    OrphanAddEdgeThenValidate =>
        \E k \in DOMAIN errors.list :
            /\ errors.list[k].message = "does not exist"
            /\ errors.list[k].id = api_last.relation.source

(***************************************************************************)
(* C19: extract_argument_graph called with an empty page list raises       *)
(* ValueError, also when the configuration is valid.                       *)
(***************************************************************************)
C19_EmptyPagesRaise ==
    (pages = <<>> /\ pc \in {"raised", "done"}) => (pc = "raised" /\ result = "ValueError")

(***************************************************************************)
(* C20: on a graph whose lists were filled directly, validate() reports    *)
(* exactly one 'does not exist' error for each dangling endpoint of each   *)
(* edge (two when source and target are both missing, none when both       *)
(* exist), exactly one 'Duplicate node ID' error for each repeated         *)
(* occurrence of an id, and exactly one self-loop error per edge with      *)
(* source = target; validate() never modifies the graph.                   *)
(***************************************************************************)
NodeIds == {nodes[k].id : k \in DOMAIN nodes}

ErrorCount(message, role, id) ==
    Cardinality({k \in DOMAIN errors.list :
                    errors.list[k] = [message |-> message, role |-> role, id |-> id]})

AuditIds == {IdA, IdB}

ErrorsMatchGraph ==
    errors.done =>
        /\ \A id \in AuditIds :
              /\ ErrorCount("does not exist", "source", id) =
                    Cardinality({k \in DOMAIN edges :
                                    edges[k].source = id /\ id \notin NodeIds})
              /\ ErrorCount("does not exist", "target", id) =
                    Cardinality({k \in DOMAIN edges :
                                    edges[k].target = id /\ id \notin NodeIds})
              /\ ErrorCount("Duplicate node ID", "node", id) =
                    IF id \in NodeIds
                    THEN Cardinality({k \in DOMAIN nodes : nodes[k].id = id}) - 1
                    ELSE 0
              /\ ErrorCount("Self-loop detected", "edge", id) =
                    Cardinality({k \in DOMAIN edges :
                                    edges[k].source = id /\ edges[k].target = id})
        /\ Len(errors.list) =
              Cardinality({k \in DOMAIN edges : edges[k].source \notin NodeIds})
              + Cardinality({k \in DOMAIN edges : edges[k].target \notin NodeIds})
              + (Len(nodes) - Cardinality(NodeIds))
              + Cardinality({k \in DOMAIN edges : edges[k].source = edges[k].target})

ValidateLeavesGraph ==
    (~errors.done /\ errors'.done) => (nodes' = nodes /\ edges' = edges)

\* C20: the messages of validate() match the graph's dangling endpoints,
\* repeated ids and self-loops one for one, and validate() leaves the graph
\* as it was.
C20_ValidateCounts == []ErrorsMatchGraph /\ [][ValidateLeavesGraph]_vars

\* a repeated node, a self-loop on a missing node and a self-loop on the
\* repeated node were validated: two 'does not exist' messages for the first
\* edge, none for the second, one duplicate and two self-loop messages
C20_Witness ==
    /\ errors.done
    /\ Len(nodes) = 2
    /\ nodes[1].id = nodes[2].id
    /\ Len(edges) = 2
    /\ edges[1].source = edges[1].target
    /\ edges[1].source \notin NodeIds
    /\ edges[2].source \in NodeIds
    /\ edges[2].target \in NodeIds
    /\ Len(errors.list) = 5

(***************************************************************************)
(* C21: each accepted component gets the id P{page}-{TypeInitial}{n} with  *)
(* n a 1-based counter per (page, type initial) inside the extraction      *)
(* call: n is one more than the number of accepted candidates of the same  *)
(* page and initial that precede it in the response, whatever else         *)
(* precedes it.                                                            *)
(***************************************************************************)
ResolvedPage(d) ==
    IF d.has_page THEN d.page ELSE _infer_page_number(d.text, chunk_pages)

AcceptedBefore(k, page, initial) ==
    Cardinality({h \in 1..(k - 1) :
                    /\ PassesComponentValidation(response.items[h])
                    /\ ResolvedPage(response.items[h]) = page
                    /\ TypeInitial(response.items[h].type) = initial})

StepAnswered ==
    /\ pc \in {"step_components", "step_relations"}
    /\ response.kind = "array"

\* C21: the counter of every returned component is its rank among the accepted
\* candidates of its own page and type initial.
C21_CounterPerPageAndInitial ==
    StepAnswered =>
        \A c \in DOMAIN chunk_components :
            \E k \in DOMAIN response.items :
                /\ PassesComponentValidation(response.items[k])
                /\ response.items[k].text = chunk_components[c].text
                /\ response.items[k].type = chunk_components[c].type
                /\ chunk_components[c].id =
                      <<"P", chunk_components[c].page, "-",
                        TypeInitial(chunk_components[c].type),
                        1 + AcceptedBefore(k, chunk_components[c].page,
                                           TypeInitial(chunk_components[c].type))>>

(***************************************************************************)
(* C22: within one component-extraction call no two returned components    *)
(* share an id, also when their types differ and share the initial letter, *)
(* and the merge-overlap pass leaves every surviving component the id it   *)
(* was given before the pass.                                              *)
(***************************************************************************)
StepIdsDistinct ==
    \A a, b \in DOMAIN chunk_components :
        a # b => chunk_components[a].id # chunk_components[b].id

\* the id given before the pass is formatted from the candidate's position
IdAsAssigned(c) ==
    \E k \in DOMAIN response.items :
        /\ PassesComponentValidation(response.items[k])
        /\ response.items[k].text = c.text
        /\ response.items[k].type = c.type
        /\ ResolvedPage(response.items[k]) = c.page
        /\ c.id = <<"P", c.page, "-", TypeInitial(c.type), k>>

\* C22: returned ids are pairwise distinct and are the ids assigned before
\* the merge-overlap pass.
C22_StepIdsUniqueAndKept ==
    StepAnswered =>
        /\ StepIdsDistinct
        /\ \A c \in DOMAIN chunk_components : IdAsAssigned(chunk_components[c])

\* a Claim and a Conclusion of the same page were both returned
C22_Witness ==
    /\ StepAnswered
    /\ \E a, b \in DOMAIN chunk_components :
          /\ chunk_components[a].type = "Claim"
          /\ chunk_components[b].type = "Conclusion"
          /\ chunk_components[a].page = chunk_components[b].page

(***************************************************************************)
(* C23: merge_overlapping_components visits the candidates in              *)
(* non-increasing text length and accepts one only if its text neither is  *)
(* a substring of nor contains an accepted text.  So no text of the result *)
(* is a substring of another (equal texts included), every rejected        *)
(* candidate is substring-related to an accepted one at least as long, the *)
(* result is ordered by non-increasing length, and the input               *)
(* ["A very long claim about X and Y", "X and Y"] keeps only the first.    *)
(***************************************************************************)
SubstringRelated(s, t) == IsSubstring(s, t) \/ IsSubstring(t, s)

Accepted(c) == \E k \in DOMAIN chunk_components : chunk_components[k] = c

MergeResultProperties ==
    /\ \A k \in DOMAIN chunk_components : \E h \in DOMAIN candidate.data :
          candidate.data[h] = chunk_components[k]
    /\ \A a, b \in DOMAIN chunk_components :
          a # b => ~IsSubstring(chunk_components[a].text, chunk_components[b].text)
    /\ \A h \in DOMAIN candidate.data :
          ~Accepted(candidate.data[h]) =>
              \E k \in DOMAIN chunk_components :
                  /\ SubstringRelated(candidate.data[h].text, chunk_components[k].text)
                  /\ Len(chunk_components[k].text) >= Len(candidate.data[h].text)
    /\ \A a, b \in DOMAIN chunk_components :
          a < b => Len(chunk_components[a].text) >= Len(chunk_components[b].text)

LongClaimExample ==
    (/\ Len(candidate.data) = 2
     /\ candidate.data[1].text = TextLongClaim
     /\ candidate.data[2].text = TextXandY) =>
        chunk_components = <<candidate.data[1]>>

\* C23: the result of the merge pass is overlap-free, covers every rejected
\* candidate by a longer or equal accepted one, is sorted, and the example
\* input keeps only its first element.
C23_MergeOverlapping == pc = "merged" => (MergeResultProperties /\ LongClaimExample)

\* the short text came first, the long one second, and only the long one is kept
C23_Witness ==
    /\ pc = "merged"
    /\ Len(candidate.data) = 2
    /\ candidate.data[1].text = TextXandY
    /\ candidate.data[2].text = TextLongClaim
    /\ chunk_components = <<candidate.data[2]>>

(***************************************************************************)
(* C24: referential integrity across chunks.  A relation returned for a    *)
(* chunk whose two endpoints are components of earlier chunks or of this   *)
(* chunk is in the graph once the chunk is merged, since all components of *)
(* the chunk are added before any of its relations.  A relation naming a   *)
(* component not yet extracted is dropped at insertion and not attempted   *)
(* again: an edge enters the graph only from the relations returned for    *)
(* the chunk being merged.                                                 *)
(***************************************************************************)
KnownIds ==
    {existing_nodes[k].id : k \in DOMAIN existing_nodes}
    \cup {chunk_components[k].id : k \in DOMAIN chunk_components}

ChunkMerged == pc \in {"loop", "done"} /\ chunks # <<>>

HasEdge(r) == \E k \in DOMAIN edges : SameTriple(edges[k], r)

ResolvedRelationsInserted ==
    ChunkMerged =>
        \A k \in DOMAIN chunk_relationships :
            IF chunk_relationships[k].source \in KnownIds
               /\ chunk_relationships[k].target \in KnownIds
            THEN HasEdge(chunk_relationships[k])
            ELSE ~HasEdge(chunk_relationships[k])

EdgeOnlyFromCurrentChunk ==
    edges' # edges =>
        /\ pc = "add_edges"
        /\ Len(edges') = Len(edges) + 1
        /\ \E k \in DOMAIN chunk_relationships :
              edges'[Len(edges')] = chunk_relationships[k]

\* C24: resolved relations of a chunk are in the graph after its merge,
\* unresolved ones are not, and edges come only from the current chunk.
C24_CrossChunkIntegrity ==
    []ResolvedRelationsInserted /\ [][EdgeOnlyFromCurrentChunk]_vars

\* the second chunk's relation joins a node of the first chunk to a node of
\* the second, and the edge is in the finished graph
C24_Witness ==
    /\ pc = "done"
    /\ Len(chunks) = 2
    /\ Len(edges) = 1
    /\ \E k \in DOMAIN existing_nodes : existing_nodes[k].id = edges[1].source
    /\ \E k \in DOMAIN chunk_components : chunk_components[k].id = edges[1].target
    /\ edges[1].source # edges[1].target

(***************************************************************************)
(* C25: when the component step of a chunk returns zero components, the    *)
(* relation step returns an empty list and issues no reasoning-service     *)
(* call, however many nodes and edges earlier chunks put into the graph.   *)
(***************************************************************************)
RelationCallsAt(offset) ==
    Cardinality({k \in DOMAIN calls : calls[k] = <<"relations", offset>>})

ChunkOffset == (Len(chunks) - 1) * config.PAGES_PER_CHUNK

\* C25: a chunk without components has no relation call and no relations.
C25_NoComponentsNoRelationCall ==
    (chunks # <<>> /\ comp_outcome # "pending" /\ chunk_components = <<>>) =>
        /\ RelationCallsAt(ChunkOffset) = 0
        /\ calls[Len(calls)] = <<"components", ChunkOffset>>
        /\ chunk_relationships = <<>>
        /\ rel_outcome \in {"pending", "skipped"}
        /\ pc # "relations" => rel_outcome = "skipped"

\* the first chunk left a node and an edge, the second chunk's component call
\* answered with an array that yields no component, and the relation step
\* was skipped
C25_Witness ==
    /\ pc = "done"
    /\ Len(chunks) = 2
    /\ nodes # <<>>
    /\ edges # <<>>
    /\ comp_outcome = "array"
    /\ chunk_components = <<>>
    /\ rel_outcome = "skipped"
    /\ Len(calls) = 3

(***************************************************************************)
(* C26: a validated candidate without `page` gets the page_number of the   *)
(* first page of the chunk, in chunk order, whose text contains the        *)
(* candidate's text verbatim, and the page_number of the chunk's first     *)
(* page when no page contains it; a declared page is used unchanged.       *)
(***************************************************************************)
PagesContaining(text) ==
    {k \in DOMAIN chunk_pages : IsSubstring(text, chunk_pages[k].text)}

FirstContainingPage(text) ==
    IF PagesContaining(text) = {} THEN chunk_pages[1].page_number
    ELSE chunk_pages[CHOOSE k \in PagesContaining(text) :
                        \A h \in PagesContaining(text) : k <= h].page_number

\* the candidate a returned component was built from: its id ends in the
\* candidate's 1-based position in the response
CandidateOf(c) == response.items[c.id[5]]

\* C26: the page of every returned component is the declared page, or else
\* the first containing page, or else the chunk's first page.
C26_PageResolution ==
    StepAnswered =>
        \A k \in DOMAIN chunk_components :
            LET c == chunk_components[k]
            IN  /\ c.id[5] \in DOMAIN response.items
                /\ CandidateOf(c).text = c.text
                /\ c.page = IF CandidateOf(c).has_page THEN CandidateOf(c).page
                            ELSE FirstContainingPage(c.text)

\* three cases at once are not needed: here a text found only on the second
\* page of the chunk got that page
C26_Witness ==
    /\ StepAnswered
    /\ Len(chunk_pages) = 2
    /\ \E k \in DOMAIN chunk_components :
          /\ ~CandidateOf(chunk_components[k]).has_page
          /\ PagesContaining(chunk_components[k].text) = {2}
          /\ chunk_components[k].page = chunk_pages[2].page_number

(***************************************************************************)
(* C27: within one chunk the steps run in the order component extraction,  *)
(* merge of the new components into the graph, relation extraction, merge  *)
(* of the new relations: when the relation call of a chunk is issued, the  *)
(* chunk's new components are already nodes of the graph, and nodes are    *)
(* not added after it.                                                     *)
(***************************************************************************)
RelationCallIssued ==
    /\ Len(calls') = Len(calls) + 1
    /\ calls'[Len(calls')][1] = "relations"

ComponentsAreNodesAtRelationCall ==
    RelationCallIssued =>
        \A k \in DOMAIN chunk_components : NodeExists(nodes, chunk_components[k].id)

\* C27: the relation call of a chunk finds the chunk's components in the graph.
C27_MergeBeforeRelationCall == [][ComponentsAreNodesAtRelationCall]_vars

(***************************************************************************)
(* C28: the context digest is the marker 'No previous components found.'   *)
(* exactly when there is no prior component.  Otherwise it lists every     *)
(* prior component, in graph order and without a cap, as                   *)
(* {id, type, text, page}, the text unchanged up to 100 characters and cut *)
(* to its first 100 characters plus an ellipsis beyond, and every prior    *)
(* relation as {source, target, relation, page} whenever the relation list *)
(* is not empty.                                                           *)
(***************************************************************************)
DigestText(text) ==
    IF Len(text) <= 100 THEN text
    ELSE [k \in 1..103 |-> IF k <= 100 THEN text[k] ELSE "."]

DigestListsComponents ==
    /\ Len(context_summary.components) = Len(existing_nodes)
    /\ \A k \in DOMAIN existing_nodes :
          /\ DOMAIN context_summary.components[k] = {"id", "type", "text", "page"}
          /\ context_summary.components[k].id = existing_nodes[k].id
          /\ context_summary.components[k].type = existing_nodes[k].type
          /\ context_summary.components[k].page = existing_nodes[k].page
          /\ context_summary.components[k].text = DigestText(existing_nodes[k].text)

DigestListsRelations ==
    existing_edges # <<>> =>
        /\ context_summary.has_relations
        /\ Len(context_summary.relations) = Len(existing_edges)
        /\ \A k \in DOMAIN existing_edges :
              /\ DOMAIN context_summary.relations[k] =
                    {"source", "target", "relation", "page"}
              /\ context_summary.relations[k].source = existing_edges[k].source
              /\ context_summary.relations[k].target = existing_edges[k].target
              /\ context_summary.relations[k].relation = existing_edges[k].relation
              /\ context_summary.relations[k].page = existing_edges[k].page

\* C28: the digest is the marker for an empty component list and the full
\* listing otherwise.
C28_ContextDigest ==
    pc = "context_done" =>
        /\ context_summary.marker <=> existing_nodes = <<>>
        /\ ~context_summary.marker => (DigestListsComponents /\ DigestListsRelations)

\* a text of exactly 100 characters and one of 102 were digested, with relations
C28_Witness ==
    /\ pc = "context_done"
    /\ Len(existing_nodes) = 2
    /\ Len(existing_nodes[1].text) = 100
    /\ Len(existing_nodes[2].text) = 102
    /\ Len(context_summary.components[1].text) = 100
    /\ Len(context_summary.components[2].text) = 103
    /\ Len(context_summary.relations) = 2

(***************************************************************************)
(* C29: the graph only grows.  Across every add_node or add_edge call and  *)
(* every driver step the previous node list is a prefix of the new one and *)
(* the previous edge list is a prefix of the new one: nothing in the graph *)
(* is removed, reordered or changed, and only the add loops of the driver  *)
(* touch it, one element at a time.                                        *)
(***************************************************************************)
GraphOnlyGrows ==
    /\ IsPrefix(nodes, nodes')
    /\ IsPrefix(edges, edges')
    /\ nodes' # nodes =>
          (pc = "add_nodes" /\ nodes' = Append(nodes, chunk_components[j]) /\ edges' = edges)
    /\ edges' # edges =>
          (pc = "add_edges" /\ edges' = Append(edges, chunk_relationships[j])
             /\ nodes' = nodes)

\* C29: every step leaves the old node and edge lists as prefixes of the new.
C29_GraphOnlyGrows == [][GraphOnlyGrows]_vars

\* the run made two add_node calls for one id and kept the first node, with
\* an edge on it
C29_Witness ==
    /\ pc = "done"
    /\ merge_calls.nodes = 2
    /\ Len(nodes) = 1
    /\ Len(edges) = 1
    /\ yielded[1].text # yielded[2].text
    /\ nodes[1] = yielded[1]

(***************************************************************************)
(* C30: provided every reasoning-service call returns or raises,           *)
(* extract_argument_graph terminates for every page list, after exactly    *)
(* one component call per chunk and at most one relation call per chunk,   *)
(* without retry: at most 2 * ceil(N / k) calls, the component call of a   *)
(* chunk preceding its relation call.                                      *)
(***************************************************************************)
CallsOf(kind, offset) ==
    Cardinality({a \in DOMAIN calls : calls[a] = <<kind, offset>>})

OffsetOf(c) == (c - 1) * config.PAGES_PER_CHUNK

ComponentStepDone(c) == c < Len(chunks) \/ pc # "components"

CallDiscipline ==
    Running =>
        /\ \A c \in DOMAIN chunks :
              /\ CallsOf("components", OffsetOf(c)) = IF ComponentStepDone(c) THEN 1 ELSE 0
              /\ CallsOf("relations", OffsetOf(c)) <= 1
        /\ \A a \in DOMAIN calls :
              /\ \E c \in DOMAIN chunks : calls[a][2] = OffsetOf(c)
              /\ calls[a][1] = "relations" =>
                    \E b \in 1..(a - 1) : calls[b] = <<"components", calls[a][2]>>
        /\ Len(calls) <= 2 * CeilDiv(Len(pages), config.PAGES_PER_CHUNK)
        /\ pc = "done" =>
              Cardinality({a \in DOMAIN calls : calls[a][1] = "components"})
                  = CeilDiv(Len(pages), config.PAGES_PER_CHUNK)

Terminated == pc \in {"done", "raised"}

\* C30: the call discipline holds throughout and the run ends.
C30_TerminatesWithBoundedCalls == []CallDiscipline /\ <>Terminated

\* a run over three pages in two chunks ended after four calls
C30_Witness ==
    /\ pc = "done"
    /\ Len(pages) = 3
    /\ Len(chunks) = 2
    /\ Len(calls) = 4

====
